---- MODULE Spec2Model ----
(***************************************************************************)
(* Email-existence verification engine of                                  *)
(* src/src/controllers/emailservice.ts: the mail-route resolver            *)
(* (getMxRecords), the mail session (SmtpClient) at the granularity of its *)
(* socket events, and the orchestrators verifyEmail and checkCatchAll with *)
(* their port and host fallback.  The retrying scraperEngineCall of        *)
(* src/unnamed/part_003 and the concurrent sessions of one guessEmail      *)
(* batch are modelled beside it, each with a specification of its own.     *)
(*                                                                         *)
(* JavaScript values: strings are TLA+ strings (substring tests are real   *)
(* substring tests); an optional value is a set with at most one element   *)
(* ({} is undefined); UNDEF stands for the value undefined where a string  *)
(* is expected.                                                            *)
(***************************************************************************)
EXTENDS Integers, Sequences, FiniteSets, TLC

VARIABLES
    fn,          \* the exported function of the top-level call
    arg,         \* its first argument: the email (verifyEmail) or the domain (checkCatchAll)
    options,     \* its options argument; retryCount is rewritten by the fallback recursion
    zone,        \* the DNS world: what resolveMx answers
    pc,          \* position of the call: "call", "dns", "http", "await25", "await587", "await465", "done", "rejected"
    depth,       \* number of fallback recursions entered so far
    retryCount,  \* const retryCount of the running invocation
    domain,      \* const domain of the running invocation
    mxRecords,   \* const mxRecords of the running invocation
    toEmail,     \* the recipient the running invocation probes (email / randomEmail)
    s,           \* the SmtpClient of the attempt in flight
    log,         \* history: the session attempts consumed so far, in order
    dnsLookups,  \* history: number of MX queries sent to the resolver
    connects,    \* history: number of socket.connect calls
    httpPosts,   \* history: number of HTTP requests sent (the controller of catchAll.controller.ts)
    allConnClass,\* history: every failed attempt so far rejected with a connection-class error
    result,      \* the value the top-level promise resolved with, or the error it rejected with
    cands,       \* guessEmail: possibleEmails; findEmailPattern: the emails of patterns
    bi,          \* guessEmail: the loop index i of the batch in flight; findEmailPattern: the probe index
    slots,       \* guessEmail: the promises of the batch in flight, by index
    results,     \* guessEmail: the results array
    verifyCalls, \* history: number of verifyEmail calls made by guessEmail / findEmailPattern
    catchAllCalls, \* history: number of checkCatchAll calls made by guessEmail / findEmailPattern
    netFail,     \* history: a candidate or probe verification returned an error
    caError,     \* history: the error of the catch-all result
    probed,      \* history: the exists values the probes of findEmailPattern returned, in order
    scrape,      \* the scraperEngineCall in progress: payload, environment, retry, position, requests, result
    members      \* the SmtpClients of the verifications of one guessEmail batch, by index

vars == <<fn, arg, options, zone, pc, depth, retryCount, domain, mxRecords,
          toEmail, s, log, dnsLookups, connects, httpPosts, allConnClass, result,
          cands, bi, slots, results, verifyCalls, catchAllCalls, netFail, caError,
          probed, scrape, members>>

\* the state of a call of the email service
callVars == <<fn, arg, options, zone, pc, depth, retryCount, domain, mxRecords,
              toEmail, s, log, dnsLookups, connects, httpPosts, allConnClass, result,
              cands, bi, slots, results, verifyCalls, catchAllCalls, netFail, caError,
              probed>>

\* the state of the scraper call and of the batch members
sideVars == <<scrape, members>>

\* the state of guessEmail and findEmailPattern
guessVars == <<cands, bi, slots, results, verifyCalls, catchAllCalls, netFail, caError,
               probed>>

\* the state of one verifyEmail / checkCatchAll call and its sessions
serviceVars == <<depth, retryCount, domain, toEmail, s, log, dnsLookups, connects,
                 httpPosts, allConnClass>>

-----------------------------------------------------------------------------
(* Bounds of the model *)

\* largest retryCount option passed by a caller
MaxRetry == 3

\* largest number of 'data' events one socket delivers
MaxData == 6

-----------------------------------------------------------------------------
(* JavaScript helpers *)

UNDEF == "<undefined>"

\* template-literal conversion of a possibly undefined string
Str(x) == IF x = UNDEF THEN "undefined" ELSE x

\* String.prototype.includes
Includes(str, sub) ==
    \E i \in 1..(Len(str) - Len(sub) + 1) : SubSeq(str, i, i + Len(sub) - 1) = sub

\* String.prototype.split(sep) for a one-character separator
RECURSIVE Split(_, _)
Split(str, sep) ==
    IF \A i \in 1..Len(str) : SubSeq(str, i, i) # sep
    THEN <<str>>
    ELSE LET k == CHOOSE i \in 1..Len(str) :
                      /\ SubSeq(str, i, i) = sep
                      /\ \A j \in 1..(i - 1) : SubSeq(str, j, j) # sep
         IN  <<SubSeq(str, 1, k - 1)>> \o Split(SubSeq(str, k + 1, Len(str)), sep)

\* array[i] with a zero-based index: undefined past the end
At(arr, i) == IF i + 1 <= Len(arr) THEN arr[i + 1] ELSE UNDEF

\* decimal conversion of a natural number in a template literal
RECURSIVE NumStr(_)
NumStr(n) ==
    IF n < 10 THEN SubSeq("0123456789", n + 1, n + 1)
    ELSE NumStr(n \div 10) \o SubSeq("0123456789", (n % 10) + 1, (n % 10) + 1)

\* (opt || dflt) for an optional number: undefined and 0 are falsy
\* mutant: the default applies to a missing option only (`??` in place of `||`)
OrDefaultNullish(opt, dflt) ==
    IF opt = {} THEN dflt ELSE CHOOSE x \in opt : TRUE

OrDefault(opt, dflt) ==
    IF opt = {} \/ opt = {0} THEN dflt ELSE CHOOSE x \in opt : TRUE

\* (opt !== undefined ? opt : false) and (opt || false) for an optional boolean
BoolOr(opt) == IF opt = {} THEN FALSE ELSE CHOOSE x \in opt : TRUE

-----------------------------------------------------------------------------
(* Program constants *)

DefaultRetryCount == 2
DefaultPort == 25
DefaultTimeout == 15000
SubmissionPort == 587
SmtpsPort == 465
RandomLength == 20

DefaultFromEmail == "test@example.com"

-----------------------------------------------------------------------------
(* The DNS world and the mail-route resolver *)

Rec(exchange, priority) == [exchange |-> exchange, priority |-> priority]

\* the answers dns.resolveMx can give in this model, in resolution order
DnsAnswers ==
    { <<>>,
      <<Rec("mx1.corp.test", 10)>>,
      <<Rec("aspmx.l.google.com", 1)>>,
      <<Rec("mx2.corp.test", 20), Rec("mx1.corp.test", 10)>>,
      <<Rec("alt.gmail-smtp.test", 5), Rec("mx1.corp.test", 5)>>,
      <<Rec("mx3.corp.test", 30), Rec("mx1.corp.test", 10), Rec("mx2.corp.test", 20)>> }

\* the resolver world: a lookup fails (ENOTFOUND, ENODATA) or answers records
Zones == {[ok |-> FALSE, records |-> <<>>]} \cup {[ok |-> TRUE, records |-> a] : a \in DnsAnswers}

\* mutant: a record is placed before the records of equal priority
RECURSIVE InsertByPriorityUnstable(_, _)
InsertByPriorityUnstable(sorted, r) ==
    IF sorted = <<>> THEN <<r>>
    ELSE IF sorted[Len(sorted)].priority - r.priority < 0
         THEN Append(sorted, r)
         ELSE Append(InsertByPriorityUnstable(SubSeq(sorted, 1, Len(sorted) - 1), r),
                     sorted[Len(sorted)])

\* Array.prototype.sort((a, b) => a.priority - b.priority): stable insertion
RECURSIVE InsertByPriority(_, _)
InsertByPriority(sorted, r) ==
    IF sorted = <<>> THEN <<r>>
    ELSE IF sorted[Len(sorted)].priority - r.priority <= 0
         THEN Append(sorted, r)
         ELSE Append(InsertByPriority(SubSeq(sorted, 1, Len(sorted) - 1), r),
                     sorted[Len(sorted)])

RECURSIVE SortByPriority(_)
SortByPriority(records) ==
    IF records = <<>> THEN <<>>
    ELSE InsertByPriority(SortByPriority(SubSeq(records, 1, Len(records) - 1)),
                          records[Len(records)])

\* getMxRecords once resolveMx has settled: [] when it rejected, else the
\* exchanges of the records sorted by priority
getMxRecords(z) ==
    IF ~z.ok THEN <<>>
    ELSE LET sorted == SortByPriority(z.records)
         IN  [i \in 1..Len(sorted) |-> sorted[i].exchange]

\* whether resolveMx(name) gets as far as sending a query: undefined fails the
\* argument validation before any query is made
ResolveMxQueries(name) == name # UNDEF

\* mailServer.includes('google') || mailServer.includes('gmail')
IsGoogleMail(mailServer) == Includes(mailServer, "google") \/ Includes(mailServer, "gmail")

-----------------------------------------------------------------------------
(* SmtpClient: one mail session *)

NoClient ==
    [ mailServer |-> UNDEF, fromEmail |-> UNDEF, toEmail |-> UNDEF,
      timeout |-> 0, port |-> 0, useTls |-> FALSE,
      simulationMode |-> FALSE, simulationResult |-> FALSE, isGoogleMail |-> FALSE,
      sock |-> "none", commandSequence |-> 0, emailAccepted |-> FALSE,
      sent |-> <<>>, nData |-> 0, idle |-> FALSE,
      promise |-> "none", value |-> FALSE, reason |-> "", cause |-> "none" ]

\* new SmtpClient(domain, mailServer, fromEmail, toEmail, opts)
SmtpClient(mailServer, fromEmail, to, opts) ==
    [ NoClient EXCEPT
        !.mailServer = mailServer,
        !.fromEmail = fromEmail,
        !.toEmail = to,
        !.timeout = OrDefault(opts.timeout, DefaultTimeout),
        !.port = OrDefault(opts.port, DefaultPort),
        !.useTls = BoolOr(opts.useTls),
        !.simulationMode = BoolOr(opts.simulationMode),
        !.simulationResult = BoolOr(opts.simulationResult),
        !.isGoogleMail = IsGoogleMail(mailServer),
        !.sock = "new" ]

\* options of the SmtpClient constructor left undefined
ClientOpts(timeout, port, useTls) ==
    [ timeout |-> timeout, port |-> port, useTls |-> useTls,
      simulationMode |-> {}, simulationResult |-> {} ]

\* mutant: resolve overwrites an outcome already reported
ResolvePromiseOverwrites(c, v) ==
    IF c.promise \in {"pending", "resolved", "rejected"}
    THEN [c EXCEPT !.promise = "resolved", !.value = v]
    ELSE c

\* resolve(value) of the checkEmail promise: a settled promise ignores it
ResolvePromise(c, v) ==
    IF c.promise = "pending" THEN [c EXCEPT !.promise = "resolved", !.value = v] ELSE c

\* reject(error) of the checkEmail promise: a settled promise ignores it
RejectPromise(c, message) ==
    IF c.promise = "pending" THEN [c EXCEPT !.promise = "rejected", !.reason = message] ELSE c

\* checkEmail(): the simulated outcome, or a pending promise and socket.connect
checkEmail(c) ==
    IF c.simulationMode
    THEN [c EXCEPT !.promise = "resolved", !.value = c.simulationResult]
    ELSE [c EXCEPT !.promise = "pending", !.sock = "connecting"]

\* sendCommand: socket.write(command + CRLF)
SendCommand(c, command) == [c EXCEPT !.sent = Append(@, command)]

\* the first terminal socket event of the session
Cause(c, kind) == IF c.cause = "none" THEN [c EXCEPT !.cause = kind] ELSE c

\* mutant: the reply to EHLO is answered with RCPT TO, MAIL FROM is skipped
OnDataSkipsSender(c, response) ==
    IF c.commandSequence = 0 /\ Includes(response, "220")
    THEN [SendCommand(c, "EHLO checkeremail.com") EXCEPT !.commandSequence = 1]
    ELSE IF c.commandSequence = 1 /\ Includes(response, "250")
    THEN [SendCommand(c, "RCPT TO:<" \o Str(c.toEmail) \o ">") EXCEPT !.commandSequence = 3]
    ELSE IF c.commandSequence = 3
    THEN [SendCommand([c EXCEPT !.emailAccepted = @ \/ Includes(response, "250")], "QUIT")
            EXCEPT !.commandSequence = 4]
    ELSE IF c.commandSequence = 4 /\ Includes(response, "221")
    THEN ResolvePromise(Cause([c EXCEPT !.sock = "ended"], "quit"), c.emailAccepted)
    ELSE c

\* socket.on('data'): the handshake, driven by substring tests on the chunk
OnData(c, response) ==
    IF c.commandSequence = 0 /\ Includes(response, "220")
    THEN [SendCommand(c, "EHLO checkeremail.com") EXCEPT !.commandSequence = 1]
    ELSE IF c.commandSequence = 1 /\ Includes(response, "250")
    THEN [SendCommand(c, "MAIL FROM:<" \o Str(c.fromEmail) \o ">") EXCEPT !.commandSequence = 2]
    ELSE IF c.commandSequence = 2 /\ Includes(response, "250")
    THEN [SendCommand(c, "RCPT TO:<" \o Str(c.toEmail) \o ">") EXCEPT !.commandSequence = 3]
    ELSE IF c.commandSequence = 3
    THEN [SendCommand([c EXCEPT !.emailAccepted = @ \/ Includes(response, "250")], "QUIT")
            EXCEPT !.commandSequence = 4]
    ELSE IF c.commandSequence = 4 /\ Includes(response, "221")
    THEN ResolvePromise(Cause([c EXCEPT !.sock = "ended"], "quit"), c.emailAccepted)
    ELSE c

\* mutant: the 'error' handler only logs
OnErrorLogsOnly(c, message) == c

\* socket.on('error')
OnError(c, message) == RejectPromise(c, message)

\* the text of the Error the 'timeout' handler rejects with
TimeoutMessage(c) ==
    "Connection to " \o Str(c.mailServer) \o ":" \o NumStr(c.port) \o " timed out after "
    \o NumStr(c.timeout) \o "ms. Note: Many ISPs and mail servers block SMTP probing."

\* mutant: the 'timeout' handler rejects and leaves the socket as it is
OnTimeoutKeepsSocket(c) == RejectPromise(c, TimeoutMessage(c))

\* socket.on('timeout'): destroy the socket, then reject
OnTimeout(c) == RejectPromise([c EXCEPT !.sock = "destroyed"], TimeoutMessage(c))

\* socket.on('close'): resolve with the acceptance recorded so far
OnClose(c) == ResolvePromise(c, c.emailAccepted)

\* the chunks a server sends in this model
Responses ==
    { "220 mx.corp.test ESMTP ready",
      "250 OK",
      "221 Bye",
      "550 5.1.1 no such user",
      "550 5.1.1 <u250@corp.test> unknown",
      "421 4.7.0 try again later" }

\* the messages of the errors a socket emits while connecting
ConnectErrors(c) ==
    { "connect ECONNREFUSED " \o Str(c.mailServer) \o ":" \o NumStr(c.port),
      "connect ETIMEDOUT " \o Str(c.mailServer) \o ":" \o NumStr(c.port),
      "connect EHOSTUNREACH " \o Str(c.mailServer) \o ":" \o NumStr(c.port),
      "getaddrinfo ENOTFOUND " \o Str(c.mailServer) }

\* the messages of the errors a connected socket emits
SessionErrors == { "read ECONNRESET" }

-----------------------------------------------------------------------------
(* Candidate generation and format re-derivation *)

LowerCase == "abcdefghijklmnopqrstuvwxyz"
UpperCase == "ABCDEFGHIJKLMNOPQRSTUVWXYZ"
Digits == "0123456789"

\* whether the one-character string ch occurs in str
HasChar(str, ch) == \E i \in 1..Len(str) : SubSeq(str, i, i) = ch

\* toLowerCase of one character
LowerChar(ch) ==
    IF HasChar(UpperCase, ch)
    THEN LET k == CHOOSE i \in 1..Len(UpperCase) : SubSeq(UpperCase, i, i) = ch
         IN  SubSeq(LowerCase, k, k)
    ELSE ch

\* name.toLowerCase().replace(/[^a-z0-9]/g, '')
RECURSIVE Normalize(_)
Normalize(name) ==
    IF name = "" THEN ""
    ELSE LET ch == LowerChar(SubSeq(name, 1, 1))
             rest == Normalize(SubSeq(name, 2, Len(name)))
         IN  IF HasChar(LowerCase, ch) \/ HasChar(Digits, ch) THEN ch \o rest ELSE rest

\* String.prototype.charAt(0)
CharAt0(str) == IF str = "" THEN "" ELSE SubSeq(str, 1, 1)

EMAIL_PATTERNS ==
    [ FIRST_DOT_LAST |-> "first.last",
      FIRST_LAST |-> "firstlast",
      FIRST_DOT_LAST_INITIAL |-> "first.l",
      FIRST_INITIAL_LAST |-> "f.last",
      FIRST_INITIAL_DOT_LAST |-> "f.last",
      FIRST |-> "first",
      LAST |-> "last",
      FIRST_INITIAL_LAST_INITIAL |-> "fl",
      LAST_DOT_FIRST |-> "last.first",
      LAST_FIRST |-> "lastfirst" ]

\* mutant: the two initial-plus-last templates change places
generatePossibleEmailsReordered(firstName, lastName, d) ==
    LET first == Normalize(firstName)
        last == Normalize(lastName)
        firstInitial == CharAt0(first)
        lastInitial == CharAt0(last)
        at == "@" \o Str(d)
    IN  << first \o "." \o last \o at,
           first \o last \o at,
           first \o at,
           last \o at,
           firstInitial \o "." \o last \o at,
           first \o lastInitial \o at,
           firstInitial \o last \o at,
           first \o "." \o lastInitial \o at,
           last \o "." \o first \o at,
           last \o first \o at,
           firstInitial \o lastInitial \o at >>

\* generatePossibleEmails for defined names
generatePossibleEmails(firstName, lastName, d) ==
    LET first == Normalize(firstName)
        last == Normalize(lastName)
        firstInitial == CharAt0(first)
        lastInitial == CharAt0(last)
        at == "@" \o Str(d)
    IN  << first \o "." \o last \o at,
           first \o last \o at,
           first \o at,
           last \o at,
           firstInitial \o last \o at,
           first \o lastInitial \o at,
           firstInitial \o "." \o last \o at,
           first \o "." \o lastInitial \o at,
           last \o "." \o first \o at,
           last \o first \o at,
           firstInitial \o lastInitial \o at >>

\* getEmailFormat for defined names
getEmailFormat(firstName, lastName, email) ==
    LET first == Normalize(firstName)
        last == Normalize(lastName)
        firstInitial == CharAt0(first)
        lastInitial == CharAt0(last)
        localPart == At(Split(email, "@"), 0)
    IN  IF localPart = first \o "." \o last THEN EMAIL_PATTERNS.FIRST_DOT_LAST
        ELSE IF localPart = first \o last THEN EMAIL_PATTERNS.FIRST_LAST
        ELSE IF localPart = firstInitial \o last THEN EMAIL_PATTERNS.FIRST_INITIAL_LAST
        ELSE IF localPart = first \o "." \o lastInitial THEN EMAIL_PATTERNS.FIRST_DOT_LAST_INITIAL
        ELSE IF localPart = firstInitial \o "." \o last THEN EMAIL_PATTERNS.FIRST_INITIAL_DOT_LAST
        ELSE IF localPart = first THEN EMAIL_PATTERNS.FIRST
        ELSE IF localPart = last THEN EMAIL_PATTERNS.LAST
        ELSE IF localPart = firstInitial \o lastInitial THEN EMAIL_PATTERNS.FIRST_INITIAL_LAST_INITIAL
        ELSE IF localPart = last \o "." \o first THEN EMAIL_PATTERNS.LAST_DOT_FIRST
        ELSE IF localPart = last \o first THEN EMAIL_PATTERNS.LAST_FIRST
        ELSE "custom"

\* (b.exists ? 1 : 0) - (a.exists ? 1 : 0)
CompareExists(a, b) == (IF b.exists THEN 1 ELSE 0) - (IF a.exists THEN 1 ELSE 0)

\* mutant: an element is placed before the elements it compares equal to
RECURSIVE InsertByExistsUnstable(_, _)
InsertByExistsUnstable(sorted, r) ==
    IF sorted = <<>> THEN <<r>>
    ELSE IF CompareExists(sorted[Len(sorted)], r) < 0
         THEN Append(sorted, r)
         ELSE Append(InsertByExistsUnstable(SubSeq(sorted, 1, Len(sorted) - 1), r),
                     sorted[Len(sorted)])

\* Array.prototype.sort with that comparator: stable insertion
RECURSIVE InsertByExists(_, _)
InsertByExists(sorted, r) ==
    IF sorted = <<>> THEN <<r>>
    ELSE IF CompareExists(sorted[Len(sorted)], r) <= 0
         THEN Append(sorted, r)
         ELSE Append(InsertByExists(SubSeq(sorted, 1, Len(sorted) - 1), r),
                     sorted[Len(sorted)])

RECURSIVE SortByExists(_)
SortByExists(rs) ==
    IF rs = <<>> THEN <<>>
    ELSE InsertByExists(SortByExists(SubSeq(rs, 1, Len(rs) - 1)), rs[Len(rs)])

-----------------------------------------------------------------------------
(* Inputs of a top-level call *)

\* the 20-character strings generateRandomString draws in this model
RandomStrings ==
    { r \in { "k3j9x0q2m5n8b7v1c4z6", "a0b1c2d3e4f5g6h7i8j9" } : Len(r) = RandomLength }

WellFormedEmail == "bob@corp.test"

\* missing, without '@', with an empty domain part, with two '@'
MalformedEmails == { UNDEF, "bobcorp.test", "bob@", "bob@mx@corp.test" }

Domains == { "corp.test" }

RetryOptions == { {} } \cup { {n} : n \in (-1)..MaxRetry }

PortOptions == { {}, {2525} }

\* simulationMode and simulationResult as a caller sets them
SimOptions ==
    { [simulationMode |-> {}, simulationResult |-> {}] }
    \cup { [simulationMode |-> {TRUE}, simulationResult |-> r] : r \in { {}, {TRUE}, {FALSE} } }

\* the (firstName, lastName, domain) arguments of guessEmail
Persons ==
    { [firstName |-> "John", lastName |-> "Doe", domain |-> "corp.test"],
      [firstName |-> "Al", lastName |-> "O'Al", domain |-> "corp.test"],
      [firstName |-> "J", lastName |-> "Doe", domain |-> "corp.test"],
      [firstName |-> "Al", lastName |-> "al", domain |-> "corp.test"],
      [firstName |-> "!", lastName |-> "Doe", domain |-> "corp.test"],
      [firstName |-> UNDEF, lastName |-> "Doe", domain |-> "corp.test"] }

NoSim == [simulationMode |-> {}, simulationResult |-> {}]

Options(retry, port, sim) ==
    [ timeout |-> {}, port |-> port, retryCount |-> retry,
      simulationMode |-> sim.simulationMode, simulationResult |-> sim.simulationResult ]

\* the calls of the model: every option set on the well-formed inputs, the
\* default retry budget and port on the malformed addresses
Calls ==
    { [fn |-> "verifyEmail", arg |-> WellFormedEmail, options |-> Options(r, p, m)] :
        r \in RetryOptions, p \in PortOptions, m \in SimOptions }
    \cup { [fn |-> "checkCatchAll", arg |-> d, options |-> Options(r, p, m)] :
        d \in Domains, r \in RetryOptions, p \in PortOptions, m \in SimOptions }
    \cup { [fn |-> "verifyEmail", arg |-> e, options |-> Options({}, {}, m)] :
        e \in MalformedEmails, m \in SimOptions }
    \cup { [fn |-> "checkCatchAll", arg |-> UNDEF, options |-> Options({}, {}, m)] :
        m \in SimOptions }
    \cup { [fn |-> "controller.verifyEmail", arg |-> e, options |-> Options({}, {}, NoSim)] :
        e \in {WellFormedEmail, ""} \cup MalformedEmails }
    \cup { [fn |-> "guessEmail", arg |-> p, options |-> Options({}, {}, m)] :
        p \in Persons, m \in SimOptions }
    \cup { [fn |-> "findEmailPattern", arg |-> d, options |-> Options({}, {}, m)] :
        d \in Domains, m \in SimOptions }

-----------------------------------------------------------------------------
(* verifyEmail and checkCatchAll *)

NoResult == [pending |-> TRUE]

\* the result object of verifyEmail
VerifyResult(exists, error, isGoogleMail) ==
    [exists |-> exists, error |-> error, isGoogleMail |-> isGoogleMail]

\* the result object of checkCatchAll
CatchAllResult(hasCatchAll, mx, randomEmail, error, isGoogleMail, simulationMode) ==
    [ hasCatchAll |-> hasCatchAll, mxRecords |-> mx, randomEmail |-> randomEmail,
      error |-> error, isGoogleMail |-> isGoogleMail, simulationMode |-> simulationMode ]

\* mutant: the simulation flag is not consulted
SimulationIgnored(opts) == FALSE

\* if (options.simulationMode)
SimulationEnabled(opts) == BoolOr(opts.simulationMode)

\* mutant: an unset simulated outcome counts as true
SimulatedResultDefaultTrue(opts) ==
    IF opts.simulationResult = {} THEN TRUE ELSE CHOOSE x \in opts.simulationResult : TRUE

\* options.simulationResult !== undefined ? options.simulationResult : false
SimulatedResult(opts) == BoolOr(opts.simulationResult)

\* const domain = email.split('@')[1]
DomainOf(email) == At(Split(email, "@"), 1)

\* const mailServer = mxRecords[0]
MailServerOf(mx) == mx[1]

\* mutant: every rejection of the first attempt counts as a connection error
IsConnectionErrorAny(message) == TRUE

\* error.message.includes('timed out') || ...('ECONNREFUSED') || ...('ETIMEDOUT')
IsConnectionError(message) ==
    \/ Includes(message, "timed out")
    \/ Includes(message, "ECONNREFUSED")
    \/ Includes(message, "ETIMEDOUT")

\* retryCount > 0 && error instanceof Error && (connection-class message)
ShouldTryPorts(rc, message) == rc > 0 /\ IsConnectionError(message)

\* mxRecords.length > 1 && retryCount > 1
ShouldTryNextMx(mx, rc) == Len(mx) > 1 /\ rc > 1

\* the useTls option of the port-465 client: set by checkCatchAll only
UseTls465(f) == IF f = "checkCatchAll" THEN {TRUE} ELSE {}

NoMxMessage(d) == "No MX records found for " \o Str(d)

NoteMessage(message) ==
    message \o " (Note: Many mail servers block SMTP probing to prevent spam and abuse)"

UnableMessage(f, d) ==
    "Unable to connect to mail servers for " \o Str(d)
    \o ". This is common as many mail servers block SMTP probing."
    \o (IF f = "checkCatchAll" THEN " Consider using simulation mode for testing." ELSE "")

\* mutant: the emptiness test is missing, mxRecords[0].includes throws and the
\* outer catch answers
NoMxResultUnchecked(f, d) ==
    IF f = "verifyEmail"
    THEN VerifyResult(FALSE,
            {"Cannot read properties of undefined (reading 'includes')"
             \o " (Note: Many mail servers block SMTP probing to prevent spam and abuse)"},
            {})
    ELSE CatchAllResult(FALSE, <<>>, {},
            {"Cannot read properties of undefined (reading 'includes')"
             \o " (Note: Many mail servers block SMTP probing to prevent spam and abuse)"},
            {}, {})

\* the value returned when the route is empty
NoMxResult(f, d) ==
    IF f = "verifyEmail"
    THEN VerifyResult(FALSE, {NoMxMessage(d)}, {})
    ELSE CatchAllResult(FALSE, <<>>, {}, {NoMxMessage(d)}, {}, {})

\* the value returned by the simulation short-circuit
SimResult(f, opts, d, mx, rnd) ==
    IF f = "verifyEmail"
    THEN VerifyResult(SimulatedResult(opts), {}, {IsGoogleMail(MailServerOf(mx))})
    ELSE CatchAllResult(SimulatedResult(opts), <<"simulated-mx." \o Str(d)>>,
                        {rnd \o "@" \o Str(d)}, {}, {}, {TRUE})

\* mutant: an acceptance by a flagged host is suppressed
AcceptedResultSuppressed(f, isAccepted, mx, to) ==
    IF f = "verifyEmail"
    THEN VerifyResult(isAccepted /\ ~IsGoogleMail(mx[1]), {}, {IsGoogleMail(mx[1])})
    ELSE CatchAllResult(isAccepted /\ ~IsGoogleMail(mx[1]), mx, {to}, {},
                        {IsGoogleMail(mx[1])}, {})

\* the value returned when a session resolved with isAccepted
AcceptedResult(f, isAccepted, mx, to) ==
    IF f = "verifyEmail"
    THEN VerifyResult(isAccepted, {}, {IsGoogleMail(MailServerOf(mx))})
    ELSE CatchAllResult(isAccepted, mx, {to}, {}, {IsGoogleMail(MailServerOf(mx))}, {})

\* the value returned with an error after at least one session attempt
FailedResult(f, message, mx, to) ==
    IF f = "verifyEmail"
    THEN VerifyResult(FALSE, {message}, {IsGoogleMail(MailServerOf(mx))})
    ELSE CatchAllResult(FALSE, mx, {to}, {message}, {IsGoogleMail(MailServerOf(mx))}, {})

\* the value returned by the outer catch
OuterCatchResult(f, message) ==
    IF f = "verifyEmail"
    THEN VerifyResult(FALSE, {NoteMessage(message)}, {})
    ELSE CatchAllResult(FALSE, <<>>, {}, {NoteMessage(message)}, {}, {})

\* return value: the promise of the top-level call resolves
Return(value) ==
    /\ pc' = "done"
    /\ result' = value

\* an exception that escapes an async function: its promise rejects
Reject(message) ==
    /\ pc' = "rejected"
    /\ result' = [error |-> message]

\* an exception thrown inside the outer try block: caught, and a result returned
Thrown(message) == Return(OuterCatchResult(fn, message))

\* new SmtpClient(...) and await client.checkEmail() on the given port
StartSession(stage, mailServer, to, port, useTls) ==
    LET c == checkEmail(SmtpClient(mailServer, DefaultFromEmail, to,
                                   ClientOpts(options.timeout, port, useTls)))
    IN  /\ s' = c
        /\ connects' = IF c.sock = "connecting" THEN connects + 1 ELSE connects
        /\ pc' = stage
        /\ result' = result

\* the body after `await getMxRecords(domain)`, up to the first session attempt
\* mutant: verifyEmail tests the simulation option before the route
AfterMxSimulationFirst(d, mx, to) ==
    /\ mxRecords' = mx
    /\ IF fn = "verifyEmail" /\ SimulationEnabled(options)
       THEN /\ Return(VerifyResult(SimulatedResult(options), {},
                                {Len(mx) > 0 /\ IsGoogleMail(mx[1])}))
            /\ UNCHANGED <<s, connects, toEmail>>
       ELSE IF Len(mx) = 0
       THEN /\ Return(NoMxResult(fn, d))
            /\ UNCHANGED <<s, connects, toEmail>>
       ELSE /\ toEmail' = to
            /\ StartSession("await25", MailServerOf(mx), to, options.port, {})

AfterMx(d, mx, to) ==
    /\ mxRecords' = mx
    /\ IF Len(mx) = 0
       THEN /\ Return(NoMxResult(fn, d))
            /\ UNCHANGED <<s, connects, toEmail>>
       ELSE IF fn = "verifyEmail" /\ SimulationEnabled(options)
       THEN /\ Return(SimResult(fn, options, d, mx, ""))
            /\ UNCHANGED <<s, connects, toEmail>>
       ELSE /\ toEmail' = to
            /\ StartSession("await25", MailServerOf(mx), to, options.port, {})

\* the recipient the invocation probes: the email, or a fresh random address
Recipients(d) ==
    IF fn = "verifyEmail" THEN {arg} ELSE { r \o "@" \o Str(d) : r \in RandomStrings }

\* entry of verifyEmail / checkCatchAll (the top-level call and every fallback
\* recursion), up to the await of resolveMx
Enter ==
    /\ pc = "call"
    /\ retryCount' = OrDefault(options.retryCount, DefaultRetryCount)
    /\ fn \in {"verifyEmail", "checkCatchAll"}
    /\ UNCHANGED <<fn, arg, options, zone, depth, log, httpPosts, allConnClass>>
    /\ UNCHANGED guessVars
    /\ UNCHANGED sideVars
    /\ IF fn = "checkCatchAll" /\ SimulationEnabled(options)
       THEN /\ \E r \in RandomStrings : Return(SimResult(fn, options, arg, <<>>, r))
            /\ UNCHANGED <<domain, mxRecords, toEmail, s, dnsLookups, connects>>
       ELSE IF fn = "verifyEmail" /\ arg = UNDEF
       THEN /\ Thrown("Cannot read properties of undefined (reading 'split')")
            /\ UNCHANGED <<domain, mxRecords, toEmail, s, dnsLookups, connects>>
       ELSE LET d == IF fn = "verifyEmail" THEN DomainOf(arg) ELSE arg
            IN  /\ domain' = d
                /\ IF ResolveMxQueries(d)
                   THEN /\ dnsLookups' = dnsLookups + 1
                        /\ pc' = "dns"
                        /\ UNCHANGED <<mxRecords, toEmail, s, connects, result>>
                   ELSE /\ dnsLookups' = dnsLookups
                        /\ \E to \in Recipients(d) : AfterMx(d, <<>>, to)

\* resolveMx settles: getMxRecords returns and the invocation goes on
DnsReply ==
    /\ pc = "dns"
    /\ UNCHANGED <<fn, arg, options, zone, depth, retryCount, domain, log,
                   dnsLookups, httpPosts, allConnClass>>
    /\ UNCHANGED guessVars
    /\ UNCHANGED sideVars
    /\ \E to \in Recipients(domain) : AfterMx(domain, getMxRecords(zone), to)

-----------------------------------------------------------------------------
(* Socket events of the attempt in flight.  The events of a socket whose     *)
(* promise has settled stay possible until the next client replaces it.     *)

SessionFrame ==
    UNCHANGED <<fn, arg, options, zone, pc, depth, retryCount, domain, mxRecords,
                toEmail, log, dnsLookups, connects, httpPosts, allConnClass, result>>
    /\ UNCHANGED guessVars
    /\ UNCHANGED sideVars

\* the connection is established ('connect' only logs)
SockConnect ==
    /\ s.sock = "connecting"
    /\ s' = [s EXCEPT !.sock = "open", !.idle = FALSE]
    /\ SessionFrame

\* the connection attempt fails: 'error' is emitted, 'close' follows
SockConnectError ==
    /\ s.sock = "connecting"
    /\ \E message \in ConnectErrors(s) :
          s' = OnError(Cause([s EXCEPT !.sock = "errored"], "error"), message)
    /\ SessionFrame

\* a chunk arrives from the server: activity on the socket restarts the idle
\* timer; the chunks are counted up to MaxData
SockData ==
    /\ s.sock \in {"open", "ended"}
    /\ \E response \in Responses :
          s' = OnData([s EXCEPT !.nData = IF @ < MaxData THEN @ + 1 ELSE @,
                                !.idle = FALSE], response)
    /\ SessionFrame

\* the established connection breaks: 'error' is emitted, 'close' follows
SockError ==
    /\ s.sock \in {"open", "ended"}
    /\ \E message \in SessionErrors :
          s' = OnError(Cause([s EXCEPT !.sock = "errored"], "error"), message)
    /\ SessionFrame

\* socket.setTimeout(this.timeout): the socket has been without activity for
\* the whole timeout
SockIdle ==
    /\ s.sock \in {"connecting", "open", "ended"}
    /\ ~s.idle
    /\ s' = [s EXCEPT !.idle = TRUE]
    /\ SessionFrame

\* the idle timer of socket.setTimeout expires
SockTimeout ==
    /\ s.sock \in {"connecting", "open", "ended"}
    /\ s.idle
    /\ s' = OnTimeout(Cause(s, "timeout"))
    /\ SessionFrame

\* 'close': the peer closed the connection, or the socket was torn down
SockClose ==
    /\ s.sock \in {"open", "ended", "errored", "destroyed"}
    /\ s' = OnClose(Cause([s EXCEPT !.sock = "closed"], "close"))
    /\ SessionFrame

-----------------------------------------------------------------------------
(* Continuations of `await client.checkEmail()` *)

\* history entry of a consumed attempt
Attempt(c, d) ==
    [ mailServer |-> c.mailServer, port |-> c.port, useTls |-> c.useTls,
      toEmail |-> c.toEmail, failed |-> c.promise = "rejected", depth |-> d ]

\* mutant: the recursion passes the budget on unchanged, as long as the model
\* follows it
RecurseSameBudget ==
    /\ options' = [options EXCEPT !.retryCount = {retryCount}]
    /\ depth' = depth + 1
    /\ depth < MaxRetry
    /\ pc' = "call"
    /\ UNCHANGED <<s, connects, result>>

\* the fallback recursion: the same function called again with retryCount - 1
Recurse ==
    /\ options' = [options EXCEPT !.retryCount = {retryCount - 1}]
    /\ depth' = depth + 1
    /\ pc' = "call"
    /\ UNCHANGED <<s, connects, result>>

Resume ==
    /\ pc \in {"await25", "await587", "await465"}
    /\ s.promise \in {"resolved", "rejected"}
    /\ log' = Append(log, Attempt(s, depth))
    /\ allConnClass' = (allConnClass /\ (s.promise = "rejected" => IsConnectionError(s.reason)))
    /\ UNCHANGED <<fn, arg, zone, retryCount, domain, mxRecords, toEmail, dnsLookups,
                   httpPosts>>
    /\ UNCHANGED guessVars
    /\ UNCHANGED sideVars
    /\ IF s.promise = "resolved"
       THEN /\ Return(AcceptedResult(fn, s.value, mxRecords, toEmail))
            /\ UNCHANGED <<options, depth, s, connects>>
       ELSE IF pc = "await25"
       THEN /\ UNCHANGED <<options, depth>>
            /\ IF ShouldTryPorts(retryCount, s.reason)
               THEN StartSession("await587", MailServerOf(mxRecords), toEmail,
                                 {SubmissionPort}, {})
               ELSE /\ Return(FailedResult(fn, NoteMessage(s.reason), mxRecords, toEmail))
                    /\ UNCHANGED <<s, connects>>
       ELSE IF pc = "await587"
       THEN /\ UNCHANGED <<options, depth>>
            /\ StartSession("await465", MailServerOf(mxRecords), toEmail,
                            {SmtpsPort}, UseTls465(fn))
       ELSE IF ShouldTryNextMx(mxRecords, retryCount)
       THEN Recurse
       ELSE /\ Return(FailedResult(fn, UnableMessage(fn, domain), mxRecords, toEmail))
            /\ UNCHANGED <<options, depth, s, connects>>

-----------------------------------------------------------------------------
(* verifyEmail of catchAll.controller.ts: the HTTP wrapper *)

\* if (!email): undefined and the empty string are falsy
Falsy(x) == x = UNDEF \/ x = ""

\* entry of the controller's verifyEmail, up to the await of axios.post
ControllerVerifyEmail ==
    /\ pc = "call"
    /\ fn = "controller.verifyEmail"
    /\ IF Falsy(arg)
       THEN /\ Reject("Email is required")
            /\ httpPosts' = httpPosts
       ELSE /\ httpPosts' = httpPosts + 1
            /\ pc' = "http"
            /\ result' = result
    /\ UNCHANGED <<fn, arg, options, zone, depth, retryCount, domain, mxRecords,
                   toEmail, s, log, dnsLookups, connects, allConnClass>>
    /\ UNCHANGED guessVars
    /\ UNCHANGED sideVars

\* axios.post settles: response.data is returned, or the error is rethrown
HttpReply ==
    /\ pc = "http"
    /\ \/ Return([data |-> "response.data"])
       \/ \E message \in {"Request failed with status code 500", "connect ECONNREFUSED"} :
             Reject("Failed to verify email: " \o message)
    /\ UNCHANGED <<fn, arg, options, zone, depth, retryCount, domain, mxRecords,
                   toEmail, s, log, dnsLookups, connects, httpPosts, allConnClass>>
    /\ UNCHANGED guessVars
    /\ UNCHANGED sideVars

-----------------------------------------------------------------------------
(* guessEmail and findEmailPattern.  Their calls of checkCatchAll and        *)
(* verifyEmail are taken by their results: the values those functions       *)
(* return, as built by the result constructors above.                       *)

concurrencyLimit == 3

testFirst == "xyztest"
testLast == "abcverify"

\* the values checkCatchAll(d, fromEmail, opts) can return in the DNS world z
CatchAllOutcomes(d, opts, z) ==
    IF SimulationEnabled(opts)
    THEN { SimResult("checkCatchAll", opts, d, <<>>, r) : r \in RandomStrings }
    ELSE IF getMxRecords(z) = <<>>
    THEN { NoMxResult("checkCatchAll", d) }
    ELSE LET mx == getMxRecords(z)
         IN  UNION { { AcceptedResult("checkCatchAll", TRUE, mx, to),
                       AcceptedResult("checkCatchAll", FALSE, mx, to),
                       FailedResult("checkCatchAll", NoteMessage("read ECONNRESET"), mx, to),
                       FailedResult("checkCatchAll", UnableMessage("checkCatchAll", d), mx, to) } :
                     to \in { r \o "@" \o Str(d) : r \in RandomStrings } }

\* the values a verifyEmail call of guessEmail / findEmailPattern can return,
\* by the two fields its callers read or drop
VerifyOutcomes ==
    { [exists |-> TRUE, error |-> {}],
      [exists |-> FALSE, error |-> {}],
      [exists |-> FALSE, error |-> {UnableMessage("verifyEmail", "corp.test")}] }

\* the result object of guessEmail
GuessResult(guessedEmails, hasCatchAll, error, isGoogleMail) ==
    [ guessedEmails |-> guessedEmails, hasCatchAll |-> hasCatchAll,
      error |-> error, isGoogleMail |-> isGoogleMail ]

\* the result object of findEmailPattern
PatternResult(pattern, hasCatchAll, error, isGoogleMail) ==
    [ pattern |-> pattern, hasCatchAll |-> hasCatchAll,
      error |-> error, isGoogleMail |-> isGoogleMail ]

\* mxRecords.length > 0 && (mxRecords[0].includes('google') || ...('gmail'))
RouteIsGoogle(mx) == Len(mx) > 0 /\ IsGoogleMail(MailServerOf(mx))

\* the outer catch of guessEmail / findEmailPattern
GuessCatchResult(f, message) ==
    IF f = "guessEmail"
    THEN GuessResult(<<>>, FALSE, {message}, {})
    ELSE PatternResult({}, FALSE, {message}, {})

\* an exception thrown inside the try block of guessEmail / findEmailPattern
GuessThrown(message) == Return(GuessCatchResult(fn, message))

\* the patterns array of findEmailPattern
Patterns(d) ==
    << [format |-> EMAIL_PATTERNS.FIRST_DOT_LAST,
        email |-> testFirst \o "." \o testLast \o "@" \o Str(d)],
       [format |-> EMAIL_PATTERNS.FIRST_LAST,
        email |-> testFirst \o testLast \o "@" \o Str(d)],
       [format |-> EMAIL_PATTERNS.FIRST_INITIAL_LAST,
        email |-> CharAt0(testFirst) \o testLast \o "@" \o Str(d)],
       [format |-> EMAIL_PATTERNS.FIRST_DOT_LAST_INITIAL,
        email |-> testFirst \o "." \o CharAt0(testLast) \o "@" \o Str(d)],
       [format |-> EMAIL_PATTERNS.FIRST, email |-> testFirst \o "@" \o Str(d)] >>

Pending == [settled |-> FALSE, exists |-> FALSE]

\* mutant: every remaining candidate is verified at once
StartBatchUnlimited(emails, i) ==
    /\ bi' = i
    /\ slots' = [j \in 1..(Len(emails) - i) |-> Pending]
    /\ verifyCalls' = verifyCalls + (Len(emails) - i)
    /\ pc' = "batch"
    /\ result' = result

\* possibleEmails.slice(i, i + concurrencyLimit).map(verifyEmail): the batch starts
StartBatch(emails, i) ==
    LET n == IF Len(emails) - i < concurrencyLimit THEN Len(emails) - i ELSE concurrencyLimit
    IN  /\ bi' = i
        /\ slots' = [j \in 1..n |-> Pending]
        /\ verifyCalls' = verifyCalls + n
        /\ pc' = "batch"
        /\ result' = result

GuessFrame ==
    UNCHANGED <<fn, arg, options, zone>> /\ UNCHANGED serviceVars /\ UNCHANGED sideVars

\* entry of guessEmail / findEmailPattern, up to the await of checkCatchAll
GuessEnter ==
    /\ pc = "call"
    /\ fn \in {"guessEmail", "findEmailPattern"}
    /\ pc' = "awaitCatchAll"
    /\ catchAllCalls' = catchAllCalls + 1
    /\ UNCHANGED <<mxRecords, result, cands, bi, slots, results, verifyCalls, netFail, caError,
                   probed>>
    /\ GuessFrame

\* mutant: the error of the detector is not looked at
GuessAfterCatchAllIgnoringError(ca) ==
    LET google == RouteIsGoogle(ca.mxRecords)
        named == arg.firstName # UNDEF /\ arg.lastName # UNDEF
        emails == generatePossibleEmails(arg.firstName, arg.lastName, arg.domain)
        notAFunction == "Cannot read properties of undefined (reading 'toLowerCase')"
    IN  IF ~named
        THEN /\ GuessThrown(notAFunction)
             /\ UNCHANGED <<cands, bi, slots, verifyCalls>>
        ELSE IF ca.hasCatchAll
        THEN /\ Return(GuessResult(
                    [k \in 1..Len(emails) |->
                        [email |-> emails[k], exists |-> TRUE,
                         format |-> "unknown (catch-all domain)"]],
                    TRUE, {}, {google}))
             /\ UNCHANGED <<cands, bi, slots, verifyCalls>>
        ELSE IF SimulationEnabled(options)
        THEN /\ Return(GuessResult(
                    [k \in 1..Len(emails) |->
                        [email |-> emails[k],
                         exists |-> IF k = 1 THEN TRUE ELSE SimulatedResult(options),
                         format |-> getEmailFormat(arg.firstName, arg.lastName, emails[k])]],
                    FALSE, {}, {google}))
             /\ UNCHANGED <<cands, bi, slots, verifyCalls>>
        ELSE /\ cands' = emails
             /\ StartBatch(emails, 0)

\* mutant: in simulation mode every candidate, the first included, gets the
\* configured outcome
GuessAfterCatchAllFirstNotForced(ca) ==
    LET google == RouteIsGoogle(ca.mxRecords)
        named == arg.firstName # UNDEF /\ arg.lastName # UNDEF
        emails == generatePossibleEmails(arg.firstName, arg.lastName, arg.domain)
        notAFunction == "Cannot read properties of undefined (reading 'toLowerCase')"
    IN  IF ca.error # {}
        THEN /\ Return(GuessResult(<<>>, FALSE, ca.error, {google}))
             /\ UNCHANGED <<cands, bi, slots, verifyCalls>>
        ELSE IF ~named
        THEN /\ GuessThrown(notAFunction)
             /\ UNCHANGED <<cands, bi, slots, verifyCalls>>
        ELSE IF ca.hasCatchAll
        THEN /\ Return(GuessResult(
                    [k \in 1..Len(emails) |->
                        [email |-> emails[k], exists |-> TRUE,
                         format |-> "unknown (catch-all domain)"]],
                    TRUE, {}, {google}))
             /\ UNCHANGED <<cands, bi, slots, verifyCalls>>
        ELSE IF SimulationEnabled(options)
        THEN /\ Return(GuessResult(
                    [k \in 1..Len(emails) |->
                        [email |-> emails[k],
                         exists |-> SimulatedResult(options),
                         format |-> getEmailFormat(arg.firstName, arg.lastName, emails[k])]],
                    FALSE, {}, {google}))
             /\ UNCHANGED <<cands, bi, slots, verifyCalls>>
        ELSE /\ cands' = emails
             /\ StartBatch(emails, 0)

\* guessEmail after `await checkCatchAll(...)`, up to the first batch
GuessAfterCatchAll(ca) ==
    LET google == RouteIsGoogle(ca.mxRecords)
        named == arg.firstName # UNDEF /\ arg.lastName # UNDEF
        emails == generatePossibleEmails(arg.firstName, arg.lastName, arg.domain)
        notAFunction == "Cannot read properties of undefined (reading 'toLowerCase')"
    IN  IF ca.error # {}
        THEN /\ Return(GuessResult(<<>>, FALSE, ca.error, {google}))
             /\ UNCHANGED <<cands, bi, slots, verifyCalls>>
        ELSE IF ~named
        THEN /\ GuessThrown(notAFunction)
             /\ UNCHANGED <<cands, bi, slots, verifyCalls>>
        ELSE IF ca.hasCatchAll
        THEN /\ Return(GuessResult(
                    [k \in 1..Len(emails) |->
                        [email |-> emails[k], exists |-> TRUE,
                         format |-> "unknown (catch-all domain)"]],
                    TRUE, {}, {google}))
             /\ UNCHANGED <<cands, bi, slots, verifyCalls>>
        ELSE IF SimulationEnabled(options)
        THEN /\ Return(GuessResult(
                    [k \in 1..Len(emails) |->
                        [email |-> emails[k],
                         exists |-> IF k = 1 THEN TRUE ELSE SimulatedResult(options),
                         format |-> getEmailFormat(arg.firstName, arg.lastName, emails[k])]],
                    FALSE, {}, {google}))
             /\ UNCHANGED <<cands, bi, slots, verifyCalls>>
        ELSE /\ cands' = emails
             /\ StartBatch(emails, 0)

\* findEmailPattern after `await checkCatchAll(...)`, up to the first probe
PatternAfterCatchAll(ca) ==
    LET google == RouteIsGoogle(ca.mxRecords)
    IN  IF ca.error # {}
        THEN /\ Return(PatternResult({}, FALSE, ca.error, {google}))
             /\ UNCHANGED <<cands, bi, slots, verifyCalls>>
        ELSE IF ca.hasCatchAll
        THEN /\ Return(PatternResult({}, TRUE,
                    {"Domain has a catch-all policy, cannot determine email pattern"}, {google}))
             /\ UNCHANGED <<cands, bi, slots, verifyCalls>>
        ELSE IF SimulationEnabled(options)
        THEN /\ Return(PatternResult({"first.last"}, FALSE, {}, {google}))
             /\ UNCHANGED <<cands, bi, slots, verifyCalls>>
        ELSE /\ cands' = [k \in 1..Len(Patterns(arg)) |-> Patterns(arg)[k].email]
             /\ bi' = 0
             /\ verifyCalls' = verifyCalls + 1
             /\ pc' = "probe"
             /\ UNCHANGED <<slots, result>>

\* checkCatchAll returns to guessEmail / findEmailPattern
CatchAllReturns ==
    /\ pc = "awaitCatchAll"
    /\ \E ca \in CatchAllOutcomes(IF fn = "guessEmail" THEN arg.domain ELSE arg, options, zone) :
          /\ mxRecords' = ca.mxRecords
          /\ caError' = ca.error
          /\ IF fn = "guessEmail" THEN GuessAfterCatchAll(ca) ELSE PatternAfterCatchAll(ca)
    /\ UNCHANGED <<results, catchAllCalls, netFail, probed>>
    /\ GuessFrame

\* one verifyEmail call of the batch in flight returns
VerifyReturns ==
    /\ pc = "batch"
    /\ \E j \in 1..Len(slots), out \in VerifyOutcomes :
          /\ ~slots[j].settled
          /\ slots' = [slots EXCEPT ![j] = [settled |-> TRUE, exists |-> out.exists]]
          /\ netFail' = (netFail \/ out.error # {})
    /\ UNCHANGED <<mxRecords, pc, result, cands, bi, results, verifyCalls, catchAllCalls, caError,
                   probed>>
    /\ GuessFrame

\* mutant: the outcomes of a batch are paired with its addresses in reverse
BatchResumeMispaired ==
    /\ pc = "batch"
    /\ \A j \in 1..Len(slots) : slots[j].settled
    /\ LET pushed == results \o
                [j \in 1..Len(slots) |->
                    [email |-> cands[bi + j], exists |-> slots[Len(slots) + 1 - j].exists,
                     format |-> getEmailFormat(arg.firstName, arg.lastName, cands[bi + j])]]
       IN  /\ IF bi + concurrencyLimit < Len(cands)
              THEN /\ results' = pushed
                   /\ StartBatch(cands, bi + concurrencyLimit)
              ELSE /\ results' = SortByExists(pushed)
                   /\ Return(GuessResult(SortByExists(pushed), FALSE, {},
                                         {RouteIsGoogle(mxRecords)}))
                   /\ UNCHANGED <<bi, slots, verifyCalls>>
    /\ UNCHANGED <<mxRecords, cands, catchAllCalls, netFail, caError, probed>>
    /\ GuessFrame

\* Promise.all of the batch resolves: the results are pushed by index, then
\* the next batch starts, or the results are sorted and returned
BatchResume ==
    /\ pc = "batch"
    /\ \A j \in 1..Len(slots) : slots[j].settled
    /\ LET pushed == results \o
                [j \in 1..Len(slots) |->
                    [email |-> cands[bi + j], exists |-> slots[j].exists,
                     format |-> getEmailFormat(arg.firstName, arg.lastName, cands[bi + j])]]
       IN  /\ IF bi + concurrencyLimit < Len(cands)
              THEN /\ results' = pushed
                   /\ StartBatch(cands, bi + concurrencyLimit)
              ELSE /\ results' = SortByExists(pushed)
                   /\ Return(GuessResult(SortByExists(pushed), FALSE, {},
                                         {RouteIsGoogle(mxRecords)}))
                   /\ UNCHANGED <<bi, slots, verifyCalls>>
    /\ UNCHANGED <<mxRecords, cands, catchAllCalls, netFail, caError, probed>>
    /\ GuessFrame

\* mutant: a probe reported as existing does not end the loop; the answer is
\* given after the last probe
ProbeReturnsWithoutStopping ==
    /\ pc = "probe"
    /\ \E out \in VerifyOutcomes :
          /\ netFail' = (netFail \/ out.error # {})
          /\ probed' = Append(probed, out.exists)
          /\ IF bi + 1 < Len(cands)
             THEN /\ bi' = bi + 1
                  /\ verifyCalls' = verifyCalls + 1
                  /\ UNCHANGED <<pc, result>>
             ELSE IF \E k \in 1..Len(probed') : probed'[k]
             THEN /\ Return(PatternResult({}, TRUE,
                        {"Domain appears to have a catch-all policy (detected during pattern testing)"},
                        {RouteIsGoogle(mxRecords)}))
                  /\ UNCHANGED <<bi, verifyCalls>>
             ELSE /\ Return(PatternResult({}, FALSE, {}, {RouteIsGoogle(mxRecords)}))
                  /\ UNCHANGED <<bi, verifyCalls>>
    /\ UNCHANGED <<mxRecords, cands, slots, results, catchAllCalls, caError>>
    /\ GuessFrame

\* mutant: when no probe is reported as existing the first format is answered
ProbeReturnsInfersPattern ==
    /\ pc = "probe"
    /\ \E out \in VerifyOutcomes :
          /\ netFail' = (netFail \/ out.error # {})
          /\ probed' = Append(probed, out.exists)
          /\ IF out.exists
             THEN /\ Return(PatternResult({}, TRUE,
                        {"Domain appears to have a catch-all policy (detected during pattern testing)"},
                        {RouteIsGoogle(mxRecords)}))
                  /\ UNCHANGED <<bi, verifyCalls>>
             ELSE IF bi + 1 < Len(cands)
             THEN /\ bi' = bi + 1
                  /\ verifyCalls' = verifyCalls + 1
                  /\ UNCHANGED <<pc, result>>
             ELSE /\ Return(PatternResult({Patterns(arg)[1].format}, FALSE, {},
                                          {RouteIsGoogle(mxRecords)}))
                  /\ UNCHANGED <<bi, verifyCalls>>
    /\ UNCHANGED <<mxRecords, cands, slots, results, catchAllCalls, caError>>
    /\ GuessFrame

\* the verifyEmail call of the probe in flight returns
ProbeReturns ==
    /\ pc = "probe"
    /\ \E out \in VerifyOutcomes :
          /\ netFail' = (netFail \/ out.error # {})
          /\ probed' = Append(probed, out.exists)
          /\ IF out.exists
             THEN /\ Return(PatternResult({}, TRUE,
                        {"Domain appears to have a catch-all policy (detected during pattern testing)"},
                        {RouteIsGoogle(mxRecords)}))
                  /\ UNCHANGED <<bi, verifyCalls>>
             ELSE IF bi + 1 < Len(cands)
             THEN /\ bi' = bi + 1
                  /\ verifyCalls' = verifyCalls + 1
                  /\ UNCHANGED <<pc, result>>
             ELSE /\ Return(PatternResult({}, FALSE, {}, {RouteIsGoogle(mxRecords)}))
                  /\ UNCHANGED <<bi, verifyCalls>>
    /\ UNCHANGED <<mxRecords, cands, slots, results, catchAllCalls, caError>>
    /\ GuessFrame

-----------------------------------------------------------------------------
(* Specification *)

(* scraperEngineCall of src/unnamed/part_003: one POST to the scrape engine, *)
(* repeated after a pause when the engine answers 403, 429 or 503           *)

\* retry < 3
RetryLimit == 3

\* const timeout = shouldApplyTimeout ? 65000 : 300000
ScrapeTimeout == 65000
LongScrapeTimeout == 300000

\* systemConnections of connection.controller
SCRAPPER_API_URL == "https://crawlee-scrapper-126608443486.us-central1.run.app"
SCRAPPER_CALLBACK_API_URL == "https://crawlee-scrapper-126608443486.us-central1.run.app"

\* formatError(code, message)
formatError(code, message) == [error |-> code \o ": " \o message]

\* str.startsWith(prefix)
StartsWith(str, prefix) ==
    Len(prefix) <= Len(str) /\ SubSeq(str, 1, Len(prefix)) = prefix

\* the digits a string starts with
RECURSIVE LeadingDigits(_)
LeadingDigits(str) ==
    IF str = "" \/ ~HasChar(Digits, SubSeq(str, 1, 1)) THEN ""
    ELSE SubSeq(str, 1, 1) \o LeadingDigits(SubSeq(str, 2, Len(str)))

\* the number a string of digits denotes
RECURSIVE Decimal(_)
Decimal(digits) ==
    IF digits = "" THEN 0
    ELSE Decimal(SubSeq(digits, 1, Len(digits) - 1)) * 10
         + (CHOOSE d \in 0..9 : SubSeq(Digits, d + 1, d + 1)
                                = SubSeq(digits, Len(digits), Len(digits)))

\* parseInt(str) of an unsigned string without leading blanks; {} is NaN
parseInt(str) ==
    IF LeadingDigits(str) = "" THEN {} ELSE {Decimal(LeadingDigits(str))}

\* getSystemConnection([...]): the three entries of systemConnections
getSystemConnection(env) ==
    [ SCRAPPER_CALLBACK_API_URL |-> SCRAPPER_CALLBACK_API_URL,
      SCRAPPER_API_URL |-> SCRAPPER_API_URL,
      MEERKATS_API_KEY |-> env.MEERKATS_API_KEY ]

\* getConnectionByName('SCRAPPER_API_URL', userId): the system entry
getConnectionByName == SCRAPPER_API_URL

\* payload?.url?.includes('.google.com/maps')
isGoogleMaps(payload) == payload.url # UNDEF /\ Includes(payload.url, ".google.com/maps")

\* payload?.url?.startsWith('https://www.linkedin.com') || ...('https://linkedin.com')
isLinkedin(payload) ==
    /\ payload.url # UNDEF
    /\ \/ StartsWith(payload.url, "https://www.linkedin.com")
       \/ StartsWith(payload.url, "https://linkedin.com")

\* const shouldApplyTimeout = !isGoogleMaps && !isLinkedin
shouldApplyTimeout(payload) == ~isGoogleMaps(payload) /\ ~isLinkedin(payload)

\* pageOptions.waitForMs of the request: parsed when truthy, NaN replaced by 0
WaitForMs(wait) ==
    IF wait = {} THEN {}
    ELSE LET str == CHOOSE w \in wait : TRUE
         IN  IF parseInt(str) = {} THEN {0} ELSE parseInt(str)

\* the request axios.post sends: url, body and config
ScrapeRequestOf(payload, env, retry) ==
    LET connectionsObj == getSystemConnection(env)
        customUrl == getConnectionByName
    IN  [ apiUrl |-> (IF customUrl # "" THEN customUrl ELSE connectionsObj.SCRAPPER_API_URL)
                     \o "/api/scraper/scrape",
          url |-> payload.url,
          scrapperCallbackUrl |-> connectionsObj.SCRAPPER_CALLBACK_API_URL,
          isProxyRequired |-> customUrl # "",
          waitForMs |-> WaitForMs(payload.waitForMs),
          apiKey |-> connectionsObj.MEERKATS_API_KEY,
          timeout |-> IF shouldApplyTimeout(payload) THEN ScrapeTimeout ELSE LongScrapeTimeout,
          retry |-> retry ]

\* mutant: every failed request counts as forbidden
isForbiddenAny(status) == TRUE

\* error?.response?.status === 403 || ... === 429 || ... === 503
isForbidden(status) == status = {403} \/ status = {429} \/ status = {503}

\* the value of the .then handler (the duration, a clock reading, is left out)
ThenResult(res) ==
    IF res.status = {200} /\ res.data # {}
    THEN CHOOSE data \in res.data : TRUE
    ELSE [ status |-> FALSE,
           error |-> formatError("WEB_SCRAPING_FAILED", "Error in scraping").error,
           shouldRetry |-> TRUE ]

\* the value the .catch handler returns when it does not retry:
\* error?.messsage is undefined on every error, so errorCode is printed
CatchResult(error) ==
    [ status |-> FALSE,
      error |-> "ERR_0002: Scrape engine failed "
                \o (IF error.status = {} THEN "undefined"
                    ELSE NumStr(CHOOSE code \in error.status : TRUE)),
      shouldRetry |-> TRUE ]

\* the payloads of the model: a maps page, two LinkedIn pages, another page,
\* no url; waitForMs absent, numeric, with a unit, not a number
ScrapePayloads ==
    { [url |-> u, waitForMs |-> w] :
        u \in { "https://www.google.com/maps/place/x", "https://www.linkedin.com/in/x",
                "https://linkedin.com/company/x", "https://example.com/", UNDEF },
        w \in { {}, {"1500"}, {"12px"}, {"soon"} } }

\* process.env.MEERKATS_API_KEY || ''
ScrapeEnvs == { [MEERKATS_API_KEY |-> k] : k \in {"", "mk-key"} }

\* the responses axios resolves with: 200 with a body, 200 and 204 without
Resolutions ==
    { [ok |-> TRUE, status |-> {200}, data |-> {[status |-> TRUE, markdown |-> "# page"]}],
      [ok |-> TRUE, status |-> {200}, data |-> {[status |-> FALSE, error |-> "blocked"]}],
      [ok |-> TRUE, status |-> {200}, data |-> {}],
      [ok |-> TRUE, status |-> {204}, data |-> {}] }

\* the errors axios rejects with: a response outside 2xx, or none (the request
\* timed out or the connection failed)
Rejections ==
    { [ok |-> FALSE, status |-> c, data |-> {}] :
        c \in { {403}, {429}, {503}, {500}, {404}, {} } }

NoScrape ==
    [ pc |-> "idle", payload |-> [url |-> UNDEF, waitForMs |-> {}],
      env |-> [MEERKATS_API_KEY |-> ""], retry |-> 0,
      requests |-> <<>>, replies |-> <<>>, result |-> NoResult ]

\* entry of scraperEngineCall (the top-level call and every retry), up to the
\* await of axios.post
ScraperEnter ==
    /\ scrape.pc = "call"
    /\ IF getSystemConnection(scrape.env).MEERKATS_API_KEY = ""
       THEN scrape' = [scrape EXCEPT
                !.pc = "done",
                !.result = [ status |-> FALSE,
                             error |-> formatError("WEB_MISSING_CREDENTIALS",
                                                   "API key is required").error ]]
       ELSE scrape' = [scrape EXCEPT
                !.pc = "post",
                !.requests = Append(@, ScrapeRequestOf(scrape.payload, scrape.env,
                                                       scrape.retry))]
    /\ UNCHANGED callVars
    /\ UNCHANGED members

\* axios.post resolves: the .then handler returns
PostResolves ==
    /\ scrape.pc = "post"
    /\ \E res \in Resolutions :
          scrape' = [scrape EXCEPT !.pc = "done",
                                   !.replies = Append(@, res),
                                   !.result = ThenResult(res)]
    /\ UNCHANGED callVars
    /\ UNCHANGED members

\* axios.post rejects: the .catch handler pauses before a retry, or returns
PostRejects ==
    /\ scrape.pc = "post"
    /\ \E error \in Rejections :
          IF isForbidden(error.status) /\ scrape.retry < RetryLimit
          THEN scrape' = [scrape EXCEPT !.pc = "sleep", !.replies = Append(@, error)]
          ELSE scrape' = [scrape EXCEPT !.pc = "done",
                                        !.replies = Append(@, error),
                                        !.result = CatchResult(error)]
    /\ UNCHANGED callVars
    /\ UNCHANGED members

\* the 10 s pause is over: return scraperEngineCall(payload, retry + 1)
SleepDone ==
    /\ scrape.pc = "sleep"
    /\ scrape' = [scrape EXCEPT !.pc = "call", !.retry = @ + 1]
    /\ UNCHANGED callVars
    /\ UNCHANGED members

-----------------------------------------------------------------------------
(* The verifications of one guessEmail batch side by side: each verifyEmail  *)
(* of batch.map(...) creates its own SmtpClient, whose listeners close over *)
(* that client and its own commandSequence and emailAccepted.               *)

\* mutant: emailAccepted is one flag for all the sessions
DeliverSharedFlag(ms, i, c) ==
    [j \in 1..Len(ms) |->
        IF j = i THEN c ELSE [ms[j] EXCEPT !.emailAccepted = c.emailAccepted]]

\* a socket event of member i runs the listener registered by client i
Deliver(ms, i, c) == [ms EXCEPT ![i] = c]

MemberFrame == UNCHANGED callVars /\ UNCHANGED scrape

MemberConnect(i) ==
    /\ members[i].sock = "connecting"
    /\ members' = Deliver(members, i, [members[i] EXCEPT !.sock = "open"])
    /\ MemberFrame

MemberConnectError(i) ==
    /\ members[i].sock = "connecting"
    /\ \E message \in ConnectErrors(members[i]) :
          members' = Deliver(members, i,
                OnError(Cause([members[i] EXCEPT !.sock = "errored"], "error"), message))
    /\ MemberFrame

MemberData(i) ==
    /\ members[i].sock \in {"open", "ended"}
    /\ \E response \in Responses :
          members' = Deliver(members, i, OnData(members[i], response))
    /\ MemberFrame

MemberError(i) ==
    /\ members[i].sock \in {"open", "ended"}
    /\ \E message \in SessionErrors :
          members' = Deliver(members, i,
                OnError(Cause([members[i] EXCEPT !.sock = "errored"], "error"), message))
    /\ MemberFrame

MemberTimeout(i) ==
    /\ members[i].sock \in {"connecting", "open", "ended"}
    /\ members' = Deliver(members, i, OnTimeout(Cause(members[i], "timeout")))
    /\ MemberFrame

MemberClose(i) ==
    /\ members[i].sock \in {"open", "ended", "errored", "destroyed"}
    /\ members' = Deliver(members, i,
                          OnClose(Cause([members[i] EXCEPT !.sock = "closed"], "close")))
    /\ MemberFrame

\* the clients of the first batch of guessEmail('John', 'Doe', 'corp.test'):
\* its three candidates on the first host of the route
BatchClients ==
    LET emails == generatePossibleEmails("John", "Doe", "corp.test")
    IN  [i \in 1..concurrencyLimit |->
            checkEmail(SmtpClient("mx1.corp.test", DefaultFromEmail, emails[i],
                                  ClientOpts({}, {}, {})))]

-----------------------------------------------------------------------------
(* The email service *)

Init ==
    /\ \E call \in Calls :
          /\ fn = call.fn
          /\ arg = call.arg
          /\ options = call.options
    /\ zone \in Zones
    /\ pc = "call"
    /\ depth = 0
    /\ retryCount = 0
    /\ domain = UNDEF
    /\ mxRecords = <<>>
    /\ toEmail = UNDEF
    /\ s = NoClient
    /\ log = <<>>
    /\ dnsLookups = 0
    /\ connects = 0
    /\ httpPosts = 0
    /\ allConnClass = TRUE
    /\ result = NoResult
    /\ cands = <<>>
    /\ bi = 0
    /\ slots = <<>>
    /\ results = <<>>
    /\ verifyCalls = 0
    /\ catchAllCalls = 0
    /\ netFail = FALSE
    /\ caError = {}
    /\ probed = <<>>
    /\ scrape = NoScrape
    /\ members = <<>>

Next ==
    \/ Enter
    \/ DnsReply
    \/ SockConnect
    \/ SockConnectError
    \/ SockData
    \/ SockError
    \/ SockIdle
    \/ SockTimeout
    \/ SockClose
    \/ Resume
    \/ ControllerVerifyEmail
    \/ HttpReply
    \/ GuessEnter
    \/ CatchAllReturns
    \/ VerifyReturns
    \/ BatchResume
    \/ ProbeReturns

Spec == Init /\ [][Next]_vars

\* the timer of a socket left without activity runs out and fires; nothing
\* obliges the server to send, to close or to stay silent
LiveSpec == Init /\ [][Next]_vars /\ WF_vars(SockIdle) /\ WF_vars(SockTimeout)

-----------------------------------------------------------------------------
(* scraperEngineCall and the batch members on their own *)

\* no call of the email service is in progress
NoCall ==
    /\ fn = "none"
    /\ arg = UNDEF
    /\ options = Options({}, {}, NoSim)
    /\ zone = [ok |-> FALSE, records |-> <<>>]
    /\ pc = "idle"
    /\ depth = 0
    /\ retryCount = 0
    /\ domain = UNDEF
    /\ mxRecords = <<>>
    /\ toEmail = UNDEF
    /\ s = NoClient
    /\ log = <<>>
    /\ dnsLookups = 0
    /\ connects = 0
    /\ httpPosts = 0
    /\ allConnClass = TRUE
    /\ result = NoResult
    /\ cands = <<>>
    /\ bi = 0
    /\ slots = <<>>
    /\ results = <<>>
    /\ verifyCalls = 0
    /\ catchAllCalls = 0
    /\ netFail = FALSE
    /\ caError = {}
    /\ probed = <<>>

\* scraperEngineCall(payload): retry takes its default 0
ScraperInit ==
    /\ NoCall
    /\ members = <<>>
    /\ \E payload \in ScrapePayloads, env \in ScrapeEnvs :
          scrape = [NoScrape EXCEPT !.pc = "call", !.payload = payload, !.env = env]

ScraperNext ==
    \/ ScraperEnter
    \/ PostResolves
    \/ PostRejects
    \/ SleepDone

ScraperSpec == ScraperInit /\ [][ScraperNext]_vars

\* the awaited promises settle: the connection lookups resolve, axios.post
\* settles within its timeout, the pause ends
ScraperLiveSpec == ScraperSpec /\ WF_vars(ScraperNext)

\* the batch has called checkEmail on each of its clients
MembersInit ==
    /\ NoCall
    /\ scrape = NoScrape
    /\ members = BatchClients

MembersNext ==
    \/ \E i \in 1..Len(members) : MemberConnect(i)
    \/ \E i \in 1..Len(members) : MemberConnectError(i)
    \/ \E i \in 1..Len(members) : MemberData(i)
    \/ \E i \in 1..Len(members) : MemberError(i)
    \/ \E i \in 1..Len(members) : MemberTimeout(i)
    \/ \E i \in 1..Len(members) : MemberClose(i)

MembersSpec == MembersInit /\ [][MembersNext]_vars

-----------------------------------------------------------------------------
(* Shared vocabulary of the properties *)

ServiceCall == fn \in {"verifyEmail", "checkCatchAll"}

\* the retryCount option the top-level call was given: each recursion passes
\* retryCount - 1 of a budget greater than 1
TopLevelRetryOption ==
    IF depth = 0 THEN options.retryCount
    ELSE {(CHOOSE x \in options.retryCount : TRUE) + depth}

\* the hosts of the attempts consumed so far
TriedHosts == { log[i].mailServer : i \in 1..Len(log) }

\* missing, or not of the form local@domain with both parts non-empty
Malformed(e) ==
    \/ e = UNDEF
    \/ Len(Split(e, "@")) # 2
    \/ Split(e, "@")[1] = ""
    \/ Split(e, "@")[2] = ""

\* the text every explanation of a blocked probe shares
Caveat == "block SMTP probing"

-----------------------------------------------------------------------------
(* C1 *)

\* C1: in verifyEmail, the three-port sequence that follows a host whose three
\* ports all failed (a fallback recursion) runs against a host not yet tried in
\* this top-level call, never again against the host that just failed.
C1_NextHostIsUntried ==
    (fn = "verifyEmail" /\ depth > 0 /\ pc = "await25") => s.mailServer \notin TriedHosts

-----------------------------------------------------------------------------
(* C2 *)

\* C2: for a route of 3 hosts on which every session attempt fails with a
\* connection-class error, verifyEmail called with retryCount=2 makes exactly 9
\* session attempts and then returns exists=false with the connection-failure
\* explanation.
C2_NineAttempts ==
    ( /\ fn = "verifyEmail"
      /\ pc = "done"
      /\ TopLevelRetryOption = {2}
      /\ Len(mxRecords) = 3
      /\ Len(log) > 0
      /\ \A i \in 1..Len(log) : log[i].failed
      /\ allConnClass )
    => ( /\ Len(log) = 9
         /\ connects = 9
         /\ result.exists = FALSE
         /\ \E e \in result.error : Includes(e, "Unable to connect to mail servers") )

-----------------------------------------------------------------------------
(* C3 *)

\* C3: in verifyEmail with a positive retry budget, when the first attempt on a
\* host fails with a connection-class error the same host is retried on port
\* 587, and when that fails on port 465 with encrypted transport enabled; an
\* attempt that does not fail ends the call with its outcome.
C3_PortFallback ==
    [][ fn = "verifyEmail" /\ retryCount > 0 /\ pc' # pc =>
          /\ (pc = "await25" /\ s.promise = "rejected" /\ IsConnectionError(s.reason))
                => ( /\ pc' = "await587"
                     /\ s'.mailServer = s.mailServer
                     /\ s'.port = 587 )
          /\ (pc = "await587" /\ s.promise = "rejected")
                => ( /\ pc' = "await465"
                     /\ s'.mailServer = s.mailServer
                     /\ s'.port = 465
                     /\ s'.useTls )
          /\ (pc \in {"await25", "await587", "await465"} /\ s.promise = "resolved")
                => ( /\ pc' = "done"
                     /\ result'.exists = s.value ) ]_vars

-----------------------------------------------------------------------------
(* C4 *)

\* C4: a mail session whose first terminal event is a socket error (connection
\* refused, connect timeout, mid-session error) or the idle timeout has rejected
\* its promise, and stays rejected: it never resolves false for these causes.
C4_NetworkFailureRejects ==
    s.cause \in {"error", "timeout"} => s.promise = "rejected"

\* a mid-session socket error followed by the 'close' event, whose handler
\* calls resolve(false) on the rejected promise
C4_Witness ==
    /\ s.cause = "error"
    /\ s.commandSequence >= 1
    /\ s.sock = "closed"
    /\ s.promise = "rejected"

-----------------------------------------------------------------------------
(* C5 *)

EngineCall == fn \in {"verifyEmail", "checkCatchAll", "guessEmail", "findEmailPattern"}

\* the result says: not found / no catch-all / no guess / no pattern
Negative ==
    IF fn = "verifyEmail" THEN result.exists = FALSE
    ELSE IF fn = "checkCatchAll" THEN result.hasCatchAll = FALSE
    ELSE IF fn = "guessEmail"
    THEN result.hasCatchAll = FALSE /\ result.guessedEmails = <<>>
    ELSE result.hasCatchAll = FALSE /\ result.pattern = {}

\* the call of verifyEmail / checkCatchAll ended on a network-level failure:
\* the lookup failed, or the last session attempt rejected
ServiceNetworkFailure ==
    /\ ServiceCall
    /\ pc = "done"
    /\ \/ (dnsLookups > 0 /\ ~zone.ok)
       \/ (log # <<>> /\ log[Len(log)].failed)

\* the catch-all check of guessEmail / findEmailPattern returned an error
CatchAllCheckFailed ==
    /\ fn \in {"guessEmail", "findEmailPattern"}
    /\ pc = "done"
    /\ caError # {}

\* a candidate or probe verification of guessEmail / findEmailPattern returned
\* an error after a catch-all check without error
VerificationFailed ==
    /\ fn \in {"guessEmail", "findEmailPattern"}
    /\ pc = "done"
    /\ caError = {}
    /\ netFail

HasErrorString == \E e \in result.error : e # ""

\* C5: verifyEmail, checkCatchAll, guessEmail and findEmailPattern never
\* reject, and a network-level failure (a failed lookup or session attempt of
\* verifyEmail / checkCatchAll, a failed catch-all check or a failed candidate
\* or probe verification of guessEmail / findEmailPattern) yields a result
\* carrying a non-empty error string, a negative one when the call itself or
\* its catch-all check failed.
C5_NetworkFailureExplained ==
    /\ EngineCall => pc # "rejected"
    /\ (ServiceNetworkFailure \/ CatchAllCheckFailed) => (Negative /\ HasErrorString)
    /\ VerificationFailed => HasErrorString

\* what holds of the code: no call rejects, and the failures of verifyEmail,
\* of checkCatchAll and of the catch-all check of guessEmail / findEmailPattern
\* are explained in a negative result
FailuresExplainedAtOrchestrator ==
    /\ EngineCall => pc # "rejected"
    /\ ServiceNetworkFailure => (Negative /\ HasErrorString)
    /\ CatchAllCheckFailed => (Negative /\ HasErrorString /\ result.error = caError)

-----------------------------------------------------------------------------
(* C6 *)

\* the running invocation has got past `await getMxRecords(domain)` and returned
RouteResolved ==
    /\ ServiceCall
    /\ pc = "done"
    /\ dnsLookups > 0

\* C6: when the resolved route is empty, verifyEmail and checkCatchAll return a
\* negative result whose error is 'No MX records found for <domain>', with no
\* connection attempted, no session and no retry.
C6_EmptyRoute ==
    (RouteResolved /\ mxRecords = <<>>)
    => ( /\ result.error = {"No MX records found for " \o Str(domain)}
         /\ (fn = "verifyEmail" => result.exists = FALSE)
         /\ (fn = "checkCatchAll" => result.hasCatchAll = FALSE /\ result.mxRecords = <<>>)
         /\ connects = 0
         /\ s = NoClient
         /\ log = <<>>
         /\ depth = 0
         /\ dnsLookups = 1 )

\* checkCatchAll on a domain whose lookup failed
C6_Witness ==
    /\ RouteResolved
    /\ fn = "checkCatchAll"
    /\ ~zone.ok
    /\ mxRecords = <<>>
    /\ result.hasCatchAll = FALSE

-----------------------------------------------------------------------------
(* C7 *)

\* C7: outside simulation mode, every verifyEmail result with exists=false for
\* a well-formed address carries an error string that includes the caveat that
\* probing is commonly blocked.
C7_NegativeHasCaveat ==
    ( /\ fn = "verifyEmail"
      /\ pc = "done"
      /\ ~Malformed(arg)
      /\ options.simulationMode = {}
      /\ result.exists = FALSE )
    => \E e \in result.error : Includes(e, Caveat)

-----------------------------------------------------------------------------
(* C8 *)

\* C8: with simulation mode on, verifyEmail attempts no connection and creates
\* no session, and with simulated outcome true it returns exists=true whenever
\* the route of the domain is not empty.
C8_SimulationNoNetwork ==
    (fn = "verifyEmail" /\ options.simulationMode = {TRUE})
    => ( /\ connects = 0
         /\ s = NoClient
         /\ (pc = "done" /\ mxRecords # <<>> /\ options.simulationResult = {TRUE})
               => result.exists = TRUE )

C8_Witness ==
    /\ fn = "verifyEmail"
    /\ options.simulationMode = {TRUE}
    /\ options.simulationResult = {TRUE}
    /\ pc = "done"
    /\ Len(mxRecords) > 1
    /\ result.exists = TRUE

-----------------------------------------------------------------------------
(* C9 *)

\* C9: for a malformed or missing address, verifyEmail (the service function and
\* the controller) attempts no DNS lookup, no connection and no HTTP request.
C9_MalformedNoNetwork ==
    (fn \in {"verifyEmail", "controller.verifyEmail"} /\ Malformed(arg))
    => (dnsLookups = 0 /\ connects = 0 /\ httpPosts = 0)

-----------------------------------------------------------------------------
(* C10 *)

\* C10: a verifyEmail result that comes from a session carries the flag exactly
\* when the name of the probed host contains 'google' or 'gmail', and its exists
\* value is the acceptance the session resolved with, whatever the flag: the
\* same acceptance on any other host of the model gives the same exists.
C10_FlagIsAdvisory ==
    ( /\ fn = "verifyEmail"
      /\ pc = "done"
      /\ Len(log) > 0
      /\ ~log[Len(log)].failed )
    => ( /\ result.isGoogleMail =
               {Includes(s.mailServer, "google") \/ Includes(s.mailServer, "gmail")}
         /\ result.exists = s.value
         /\ s.value = s.emailAccepted
         /\ \A a \in DnsAnswers : a # <<>> =>
               AcceptedResult(fn, s.value, getMxRecords([ok |-> TRUE, records |-> a]),
                              toEmail).exists = result.exists )

\* a Google host accepted the recipient: exists=true with the flag set
C10_Witness ==
    /\ fn = "verifyEmail"
    /\ pc = "done"
    /\ Len(log) > 0
    /\ ~log[Len(log)].failed
    /\ result.exists = TRUE
    /\ result.isGoogleMail = {TRUE}
    /\ s.mailServer = "aspmx.l.google.com"

-----------------------------------------------------------------------------
(* Vocabulary of the candidate-generation properties *)

\* the candidate addresses of a guessEmail call in generation order, once the
\* call holds them: the list under verification, or the list returned by the
\* catch-all and simulation branches
Generated ==
    IF fn # "guessEmail" THEN <<>>
    ELSE IF cands # <<>> THEN cands
    ELSE IF pc = "done"
    THEN [k \in 1..Len(result.guessedEmails) |-> result.guessedEmails[k].email]
    ELSE <<>>

\* the lowercase-alphanumeric form of each name of the model, written out
NormalFormOf(name) ==
    CASE name = "John" -> "john"
      [] name = "Doe" -> "doe"
      [] name = "Al" -> "al"
      [] name = "al" -> "al"
      [] name = "O'Al" -> "oal"
      [] name = "J" -> "j"
      [] name = "!" -> ""

Initial(str) == IF str = "" THEN "" ELSE SubSeq(str, 1, 1)

\* the eleven local-parts in the order the contract fixes
ElevenLocalParts(f, l) ==
    << f \o "." \o l, f \o l, f, l, Initial(f) \o l, f \o Initial(l),
       Initial(f) \o "." \o l, f \o "." \o Initial(l), l \o "." \o f, l \o f,
       Initial(f) \o Initial(l) >>

PairwiseDistinct(seq) ==
    \A i, j \in 1..Len(seq) : i # j => seq[i] # seq[j]

\* every character of str is one of the characters of alphabet
Over(str, alphabet) == \A i \in 1..Len(str) : HasChar(alphabet, SubSeq(str, i, i))

-----------------------------------------------------------------------------
(* C11 *)

\* C11: the list generatePossibleEmails returns has exactly 11 addresses, the
\* local-parts first.last, firstlast, first, last, f+last, first+l, f.last,
\* first.l, last.first, lastfirst, fl in this order over the names reduced to
\* lowercase alphanumerics, each followed by '@' and the domain; it is the same
\* list in every state of every call with the same names.
C11_ElevenInFixedOrder ==
    Generated # <<>>
    => LET locals == ElevenLocalParts(NormalFormOf(arg.firstName),
                                      NormalFormOf(arg.lastName))
       IN  /\ Len(Generated) = 11
           /\ \A k \in 1..11 : Generated[k] = locals[k] \o "@" \o arg.domain

\* names with a capital and a removed character, list under verification
C11_Witness ==
    /\ fn = "guessEmail"
    /\ arg.firstName = "Al"
    /\ arg.lastName = "O'Al"
    /\ pc = "batch"
    /\ Len(cands) = 11
    /\ cands[7] = "a.oal@corp.test"

-----------------------------------------------------------------------------
(* C12 *)

\* C12: when both names reduce to non-empty strings, the 11 generated addresses
\* are pairwise distinct.
C12_NoDuplicates ==
    ( /\ Generated # <<>>
      /\ Normalize(arg.firstName) # ""
      /\ Normalize(arg.lastName) # "" )
    => PairwiseDistinct(Generated)

-----------------------------------------------------------------------------
(* C13 *)

\* C13: every generated address is a non-empty local-part over [a-z0-9.]
\* followed by '@' and the domain, with no uppercase character.
C13_WellFormedCandidates ==
    \A k \in 1..Len(Generated) :
        LET parts == Split(Generated[k], "@")
        IN  /\ Len(parts) = 2
            /\ parts[1] # ""
            /\ Over(parts[1], LowerCase \o Digits \o ".")
            /\ parts[2] = arg.domain
            /\ \A i \in 1..Len(Generated[k]) :
                  ~HasChar(UpperCase, SubSeq(Generated[k], i, i))

-----------------------------------------------------------------------------
(* C14 *)

\* the format tags guessEmail attached to the candidates, in generation order:
\* the simulation branch tags every candidate with getEmailFormat and does not
\* reorder
TagsInGenerationOrder ==
    IF /\ fn = "guessEmail"
       /\ pc = "done"
       /\ options.simulationMode = {TRUE}
       /\ ~result.hasCatchAll
    THEN [k \in 1..Len(result.guessedEmails) |-> result.guessedEmails[k].format]
    ELSE <<>>

\* C14: for names whose eleven candidates are pairwise distinct, the tag
\* getEmailFormat re-derives from each candidate is never 'custom' and is
\* different for different templates.
C14_FormatIsLeftInverse ==
    (TagsInGenerationOrder # <<>> /\ PairwiseDistinct(Generated))
    => /\ \A k \in 1..Len(TagsInGenerationOrder) : TagsInGenerationOrder[k] # "custom"
       /\ PairwiseDistinct(TagsInGenerationOrder)

-----------------------------------------------------------------------------
(* C15 *)

\* guessEmail returned from its catch-all branch
CatchAllBranchTaken ==
    fn = "guessEmail" /\ pc = "done" /\ result.hasCatchAll

\* C15: guessEmail calls the Catch-All Detector before any verification, and
\* when it returns with hasCatchAll=true no verifyEmail call was made and the
\* result is the 11 candidates in generation order, each with exists=true and
\* the format tag 'unknown (catch-all)'.
C15_CatchAllSkipsVerification ==
    /\ (fn = "guessEmail" /\ pc # "call") => catchAllCalls = 1
    /\ (fn = "guessEmail" /\ pc \in {"call", "awaitCatchAll"}) => verifyCalls = 0
    /\ CatchAllBranchTaken
       => /\ verifyCalls = 0
          /\ Len(result.guessedEmails) = 11
          /\ \A k \in 1..Len(result.guessedEmails) :
                /\ result.guessedEmails[k].email =
                      ElevenLocalParts(NormalFormOf(arg.firstName),
                                       NormalFormOf(arg.lastName))[k]
                      \o "@" \o arg.domain
                /\ result.guessedEmails[k].exists
                /\ result.guessedEmails[k].format = "unknown (catch-all)"

\* the same with the tag the code writes: holds
CatchAllBranchWithCodeTag ==
    /\ (fn = "guessEmail" /\ pc # "call") => catchAllCalls = 1
    /\ (fn = "guessEmail" /\ pc \in {"call", "awaitCatchAll"}) => verifyCalls = 0
    /\ CatchAllBranchTaken
       => /\ verifyCalls = 0
          /\ Len(result.guessedEmails) = 11
          /\ \A k \in 1..Len(result.guessedEmails) :
                /\ result.guessedEmails[k].email =
                      ElevenLocalParts(NormalFormOf(arg.firstName),
                                       NormalFormOf(arg.lastName))[k]
                      \o "@" \o arg.domain
                /\ result.guessedEmails[k].exists
                /\ result.guessedEmails[k].format = "unknown (catch-all domain)"

-----------------------------------------------------------------------------
(* C16 *)

\* the verifyEmail calls of the current batch that have not settled
InFlight == Cardinality({ j \in 1..Len(slots) : ~slots[j].settled })

\* C16: while guessEmail verifies, at most 3 calls are in flight, the batches
\* start at candidates 0, 3, 6, 9 with sizes 3, 3, 3, 2, every call started
\* before the current batch has settled and been recorded, and a step that
\* starts verifications starts the next candidates in generation order and is
\* taken only when no call of the previous batch is still in flight.
C16_BatchesOfThree ==
    /\ []( (fn = "guessEmail" /\ pc = "batch")
           => /\ InFlight <= 3
              /\ bi \in {0, 3, 6, 9}
              /\ Len(slots) = (IF bi = 9 THEN 2 ELSE 3)
              /\ Len(results) = bi
              /\ verifyCalls = bi + Len(slots)
              /\ \A k \in 1..bi : results[k].email = cands[k] )
    /\ [][ (fn = "guessEmail" /\ verifyCalls' > verifyCalls)
           => /\ InFlight = 0
              /\ bi' = verifyCalls
              /\ InFlight' = verifyCalls' - verifyCalls
              /\ InFlight' <= 3 ]_vars

\* the last batch, of two, with one call settled on a failure and one in flight
C16_Witness ==
    /\ fn = "guessEmail"
    /\ pc = "batch"
    /\ bi = 9
    /\ Len(slots) = 2
    /\ InFlight = 1
    /\ netFail
    /\ Len(results) = 9

-----------------------------------------------------------------------------
(* C17 *)

\* the index of a candidate in the generation order, for distinct candidates
GenerationIndex(email) == CHOOSE k \in 1..Len(cands) : cands[k] = email

\* guessEmail returned from its verification path
Ranked ==
    fn = "guessEmail" /\ pc = "done" /\ cands # <<>> /\ PairwiseDistinct(cands)

\* C17: the list guessEmail returns after verification holds every candidate
\* once, every exists=true entry before every exists=false entry, and two
\* entries with the same exists value in their generation order.
C17_StablePartition ==
    Ranked
    => LET g == result.guessedEmails
       IN  /\ Len(g) = Len(cands)
           /\ \A k \in 1..Len(cands) : \E i \in 1..Len(g) : g[i].email = cands[k]
           /\ \A i, j \in 1..Len(g) :
                 i < j => /\ g[j].exists => g[i].exists
                          /\ g[i].exists = g[j].exists
                                => GenerationIndex(g[i].email) < GenerationIndex(g[j].email)

\* the ranking moved entries: the first candidate does not exist, the second
\* and the last do, and several do not
C17_Witness ==
    /\ Ranked
    /\ result.guessedEmails[1].email = cands[2]
    /\ result.guessedEmails[2].email = cands[11]
    /\ result.guessedEmails[3].email = cands[1]
    /\ ~result.guessedEmails[3].exists
    /\ result.guessedEmails[11].email = cands[10]

-----------------------------------------------------------------------------
(* C18 *)

\* C18: checkCatchAll in simulation mode returns hasCatchAll true exactly when
\* the simulated outcome is set to true, with a probed address of 20 characters
\* of [a-z0-9] followed by '@' and the domain, and has made no connection.
C18_SimulatedCatchAll ==
    ( /\ fn = "checkCatchAll"
      /\ arg # UNDEF
      /\ options.simulationMode = {TRUE}
      /\ pc = "done" )
    => /\ result.hasCatchAll = (options.simulationResult = {TRUE})
       /\ result.error = {}
       /\ \E e \in result.randomEmail :
             /\ result.randomEmail = {e}
             /\ Len(Split(e, "@")) = 2
             /\ Len(Split(e, "@")[1]) = 20
             /\ Over(Split(e, "@")[1], LowerCase \o Digits)
             /\ Split(e, "@")[2] = arg
       /\ connects = 0
       /\ s = NoClient
       /\ log = <<>>

\* simulated outcome unset: the answer is negative
C18_Witness ==
    /\ fn = "checkCatchAll"
    /\ arg = "corp.test"
    /\ options.simulationMode = {TRUE}
    /\ options.simulationResult = {}
    /\ pc = "done"
    /\ ~result.hasCatchAll
    /\ result.randomEmail = {"k3j9x0q2m5n8b7v1c4z6@corp.test"}

-----------------------------------------------------------------------------
(* C19 *)

\* the value verifyEmail returns in simulation mode for an address of domain d
\* in the DNS world z
VerifyEmailSimulated(d, opts, z) ==
    IF getMxRecords(z) = <<>>
    THEN NoMxResult("verifyEmail", d)
    ELSE SimResult("verifyEmail", opts, d, getMxRecords(z), "")

\* the transport mode verifyEmail gives the client of an attempt
VerifyEmailUseTls(stage) ==
    IF stage = 3 THEN BoolOr(UseTls465("verifyEmail")) ELSE FALSE

\* the attempts of the current round: the entries of the log at this depth
Round == SelectSeq(log, LAMBDA a : a.depth = depth)

\* C19: checkCatchAll opens every session as verifyEmail opens it for the same
\* position of the port sequence (same transport mode), and in simulation mode
\* its hasCatchAll and its error-or-no-error are those of verifyEmail's result
\* for an address of the domain.
C19_DetectorIsOrchestratorClient ==
    fn = "checkCatchAll"
    => /\ \A i \in 1..Len(Round) : Round[i].useTls = VerifyEmailUseTls(i)
       /\ (pc = "done" /\ arg # UNDEF /\ SimulationEnabled(options))
             => LET v == VerifyEmailSimulated(arg, options, zone)
                IN  /\ result.hasCatchAll = v.exists
                    /\ (result.error = {}) = (v.error = {})

-----------------------------------------------------------------------------
(* transport mode alone: violated as well *)

CatchAllTransportAsVerifyEmail ==
    fn = "checkCatchAll"
    => \A i \in 1..Len(Round) : Round[i].useTls = VerifyEmailUseTls(i)

-----------------------------------------------------------------------------
(* C20 *)

\* the five probe addresses of the contract for the domain of the model
FiveProbes ==
    << "xyztest.abcverify@corp.test", "xyztestabcverify@corp.test",
       "xabcverify@corp.test", "xyztest.a@corp.test", "xyztest@corp.test" >>

\* C20: once findEmailPattern probes (no simulation, negative catch-all check),
\* the probes are the five fixed addresses, the k-th verifyEmail call is sent
\* only after the first k-1 returned without reporting existence, and a probe
\* reported as existing ends the call with hasCatchAll=true, pattern=null and
\* the catch-all explanation, with no further verifyEmail call.
C20_StopsAtFirstExistingProbe ==
    (fn = "findEmailPattern" /\ verifyCalls > 0)
    => /\ options.simulationMode = {}
       /\ caError = {}
       /\ cands = FiveProbes
       /\ verifyCalls <= 5
       /\ \A k \in 1..(Len(probed) - 1) : ~probed[k]
       /\ pc = "probe" => /\ Len(probed) = verifyCalls - 1
                          /\ \A k \in 1..Len(probed) : ~probed[k]
       /\ pc = "done" => Len(probed) = verifyCalls
       /\ (Len(probed) > 0 /\ probed[Len(probed)])
             => /\ pc = "done"
                /\ result.hasCatchAll
                /\ result.pattern = {}
                /\ result.error =
                      {"Domain appears to have a catch-all policy (detected during pattern testing)"}

\* the third probe was reported as existing after two that were not
C20_Witness ==
    /\ fn = "findEmailPattern"
    /\ pc = "done"
    /\ probed = <<FALSE, FALSE, TRUE>>
    /\ verifyCalls = 3
    /\ result.hasCatchAll

-----------------------------------------------------------------------------
(* C21 *)

\* the position in the resolver's answer of the record with this exchange
ResolutionIndex(exchange) ==
    CHOOSE k \in 1..Len(zone.records) : zone.records[k].exchange = exchange

\* the invocation holds the route getMxRecords returned for a resolver answer
RouteReturned ==
    /\ ServiceCall
    /\ dnsLookups > 0
    /\ pc \notin {"call", "dns"}

\* C21: the route getMxRecords returns holds the exchange of every resolved
\* record exactly once and nothing else, in ascending priority, two records of
\* equal priority in the order of the resolver's answer; a failed lookup gives
\* the empty route.
C21_RouteSortedStable ==
    RouteReturned
    => IF ~zone.ok THEN mxRecords = <<>>
       ELSE /\ Len(mxRecords) = Len(zone.records)
            /\ \A k \in 1..Len(zone.records) :
                  Cardinality({ i \in 1..Len(mxRecords) :
                                  mxRecords[i] = zone.records[k].exchange }) = 1
            /\ \A i, j \in 1..Len(mxRecords) :
                  i < j =>
                     LET a == zone.records[ResolutionIndex(mxRecords[i])]
                         b == zone.records[ResolutionIndex(mxRecords[j])]
                     IN  /\ a.priority <= b.priority
                         /\ a.priority = b.priority
                               => ResolutionIndex(mxRecords[i]) < ResolutionIndex(mxRecords[j])

\* a route reordered by priority, and a route of two records of equal priority
C21_Witness ==
    /\ RouteReturned
    /\ \/ mxRecords = <<"mx1.corp.test", "mx2.corp.test", "mx3.corp.test">>
       \/ /\ mxRecords = <<"alt.gmail-smtp.test", "mx1.corp.test">>
          /\ zone.records[1].priority = zone.records[2].priority

-----------------------------------------------------------------------------
(* Vocabulary of the session properties *)

Settled(c) == c.promise \in {"resolved", "rejected"}

\* a step of the session in flight: the same client before and after
SessionStep == s' # s /\ log' = log /\ s.sock # "none" /\ s'.sock # "none" /\ pc' = pc

Last(seq) == seq[Len(seq)]

\* the status code of a reply: its first three characters
Status(response) == SubSeq(response, 1, 3)

-----------------------------------------------------------------------------
(* C28 *)

\* C28: once the promise of a session has resolved or rejected, no later event
\* of that connection changes the outcome, its value or its reason.
C28_SettlesOnce ==
    [][ (SessionStep /\ Settled(s))
        => /\ s'.promise = s.promise
           /\ s'.value = s.value
           /\ s'.reason = s.reason ]_vars

\* 'close' arrived after the error that rejected the promise
C28_Witness ==
    /\ s.promise = "rejected"
    /\ s.cause = "error"
    /\ s.sock = "closed"
    /\ s.commandSequence = 3
    /\ s.reason = "read ECONNRESET"

-----------------------------------------------------------------------------
(* C26 *)

Released == {"ended", "closed", "destroyed", "errored"}

\* C26: every session attempt of verifyEmail / checkCatchAll has called
\* socket.connect exactly once, and a session whose promise has settled has its
\* socket ended by the client, destroyed by the client, torn down by the
\* runtime on the error, or closed.
C26_OneConnectionReleased ==
    ServiceCall
    => /\ connects = Len(log) + (IF pc \in {"await25", "await587", "await465"} THEN 1 ELSE 0)
       /\ Settled(s) => s.sock \in Released

\* the timer settled the session and destroyed the socket
C26_Witness ==
    /\ ServiceCall
    /\ s.promise = "rejected"
    /\ s.cause = "timeout"
    /\ s.sock = "destroyed"
    /\ s.commandSequence = 2
    /\ connects = 1

-----------------------------------------------------------------------------
(* C25 *)

\* C25: a session resolves only in AwaitClose, RCPT TO and QUIT sent and the
\* recipient reply received, and the value it resolves with is the acceptance
\* recorded with that reply.
C25_ResolvesInAwaitClose ==
    s.promise = "resolved"
    => /\ s.commandSequence = 4
       /\ Len(s.sent) = 4
       /\ Last(s.sent) = "QUIT"
       /\ s.value = s.emailAccepted

-----------------------------------------------------------------------------
(* C29 *)

\* the retry budget of the top-level call
TopLevelBudget ==
    OrDefault(TopLevelRetryOption, DefaultRetryCount)

-----------------------------------------------------------------------------
(* C30 *)

\* C30: one top-level verifyEmail call sends at most one MX query: the route is
\* resolved once, and the fallback rounds use the route resolved then.
C30_RouteResolvedOnce ==
    fn = "verifyEmail" => dnsLookups <= 1

-----------------------------------------------------------------------------
(* C22 *)

\* the session in flight can receive a chunk
Receiving == s.sock = "open"

\* C22: no acceptance is recorded before the recipient reply; the chunk
\* received in AwaitRecipientAck records acceptance exactly when its status code
\* is 250, and whatever it is QUIT is sent and the session is in AwaitClose; a
\* chunk received in AwaitClose does not change the recorded acceptance.
C22_AcceptanceIffRcpt250 ==
    /\ s.commandSequence < 3 => ~s.emailAccepted
    /\ (Receiving /\ s.commandSequence = 3)
          => \A r \in Responses :
                LET c == OnData(s, r)
                IN  /\ c.emailAccepted = (Status(r) = "250")
                    /\ c.sent = Append(s.sent, "QUIT")
                    /\ c.commandSequence = 4
    /\ (Receiving /\ s.commandSequence = 4)
          => \A r \in Responses : OnData(s, r).emailAccepted = s.emailAccepted

-----------------------------------------------------------------------------
(* C23 *)

\* C23: a chunk received in AwaitIdentificationAck or AwaitSenderAck whose
\* status code is not 250 records no acceptance and makes the session send
\* QUIT and wait for the close; a chunk other than the greeting received in
\* AwaitGreeting leaves the session waiting.
C23_UnexpectedReplyQuits ==
    /\ (Receiving /\ s.commandSequence \in {1, 2})
          => \A r \in Responses :
                Status(r) # "250"
                => LET c == OnData(s, r)
                   IN  /\ ~c.emailAccepted
                       /\ Last(c.sent) = "QUIT"
                       /\ c.commandSequence = 4
    /\ (Receiving /\ s.commandSequence = 0)
          => \A r \in Responses :
                Status(r) # "220" => OnData(s, r).commandSequence = 0

-----------------------------------------------------------------------------
(* C24 *)

\* the four commands of a session, in order
Commands(c) ==
    << "EHLO checkeremail.com",
       "MAIL FROM:<" \o c.fromEmail \o ">",
       "RCPT TO:<" \o c.toEmail \o ">",
       "QUIT" >>

\* the code a chunk carries when it moves the session out of this state
ExpectedCode(state) ==
    CASE state = 0 -> "220"
      [] state \in {1, 2} -> "250"
      [] state = 3 -> ""
      [] state = 4 -> "221"

-----------------------------------------------------------------------------
(* C27 *)

\* C27: a session whose promise is pending eventually resolves or rejects,
\* whatever the server sends or withholds.
C27_SessionSettles ==
    (s.promise = "pending") ~> (s.promise \in {"resolved", "rejected"})

-----------------------------------------------------------------------------
(* C31 *)

\* the recipients of the attempts of the call so far, the one in flight included
ProbedAddresses ==
    { log[i].toEmail : i \in 1..Len(log) }
    \cup (IF pc \in {"await25", "await587", "await465"} THEN {s.toEmail} ELSE {})

\* C31: one top-level checkCatchAll call probes with one random address: every
\* session attempt of the call, on every port and every fallback host, has the
\* same recipient, and a result that reports a probed address reports that one.
C31_OneProbeAddress ==
    fn = "checkCatchAll"
    => /\ \A a, b \in ProbedAddresses : a = b
       /\ (pc = "done" /\ result.randomEmail # {} /\ ~SimulationEnabled(options)
           => \A a \in ProbedAddresses : result.randomEmail = {a})

-----------------------------------------------------------------------------
(* C32 *)

\* the entry guessEmail builds for candidate k of the batch from outcome j
Paired(k, j) ==
    [ email |-> cands[k], exists |-> slots[j].exists,
      format |-> getEmailFormat(arg.firstName, arg.lastName, cands[k]) ]

\* a batch of guessEmail ends: every verification has returned and the call
\* goes on
BatchEnds == pc = "batch" /\ (pc' # "batch" \/ bi' # bi)

\* C32: whatever the order in which the verifications of a batch returned,
\* the entry guessEmail records for candidate bi + j carries the address of
\* that candidate, the outcome of the verification of that candidate and the
\* format derived from that address; the returned list is a rearrangement of
\* the recorded entries.
C32_PairedByIndex ==
    [][fn = "guessEmail" /\ BatchEnds
          => LET all == [k \in 1..(bi + Len(slots)) |->
                            IF k <= bi THEN results[k] ELSE Paired(k, k - bi)]
                 returned == result'.guessedEmails
             IN  /\ \A j \in 1..Len(slots) : slots[j].settled
                 /\ Len(results) = bi
                 /\ \A k \in 1..bi : results[k].email = cands[k]
                 /\ IF pc' = "batch"
                    THEN results' = all
                    ELSE /\ pc' = "done"
                         /\ Len(all) = Len(cands)
                         /\ Len(returned) = Len(all)
                         /\ \A k \in 1..Len(all) :
                               Cardinality({ m \in 1..Len(all) : returned[m] = all[k] })
                               = Cardinality({ m \in 1..Len(all) : all[m] = all[k] })
      ]_vars

\* the last verification of the second batch returned before the first one,
\* and the first batch was recorded with differing outcomes
C32_Witness ==
    /\ fn = "guessEmail"
    /\ pc = "batch"
    /\ bi = 3
    /\ Len(results) = 3
    /\ results[1].exists # results[3].exists
    /\ slots[3].settled
    /\ ~slots[1].settled

-----------------------------------------------------------------------------
(* C34 *)

\* C34: when the detector returns an error, guessEmail is over at once: it
\* returns an empty guess list with that error and hasCatchAll = false, no
\* candidate was generated and no verification was started; so a verification
\* is started only after a detector result without error.
C34_DetectorErrorEndsGuess ==
    fn = "guessEmail"
    => /\ (caError # {}
           => /\ pc = "done"
              /\ result.guessedEmails = <<>>
              /\ result.error = caError
              /\ result.hasCatchAll = FALSE
              /\ cands = <<>>
              /\ verifyCalls = 0)
       /\ (verifyCalls > 0 => catchAllCalls = 1 /\ caError = {} /\ pc # "awaitCatchAll")

\* both kinds of detector error ended a guessEmail call
C34_Witness ==
    /\ fn = "guessEmail"
    /\ pc = "done"
    /\ arg.firstName = "John"
    /\ caError = {UnableMessage("checkCatchAll", "corp.test")}
    /\ result.guessedEmails = <<>>

-----------------------------------------------------------------------------
(* C35 *)

\* the message names a refused or timed-out connection
ConnectionClass(message) ==
    \E word \in {"timed out", "ECONNREFUSED", "ETIMEDOUT"} : Includes(message, word)

\* the invocation consumes a rejected attempt made on the given stage
AttemptFailed(stage) ==
    /\ fn = "verifyEmail"
    /\ pc = stage
    /\ s.promise = "rejected"
    /\ log' = Append(log, Attempt(s, depth))

\* C35: verifyEmail goes to port 587 only after a connection-class failure of
\* the first attempt (and a positive budget); after any other failure of the
\* first attempt it starts no further session and returns exists = false with
\* the message of that failure.  A failure of any kind on 587 starts the
\* attempt on 465 of the same host; a failure of any kind on 465 is followed
\* by the host-fallback decision only: a new invocation or the final answer,
\* never another session of this invocation.
C35_PortsOnConnectionErrorOnly ==
    [][/\ AttemptFailed("await25")
          => IF retryCount > 0 /\ ConnectionClass(s.reason)
             THEN /\ pc' = "await587"
                  /\ s'.port = 587
                  /\ s'.mailServer = s.mailServer
             ELSE /\ pc' = "done"
                  /\ connects' = connects
                  /\ s' = s
                  /\ result'.exists = FALSE
                  /\ \E e \in result'.error : Includes(e, s.reason)
       /\ AttemptFailed("await587")
          => /\ pc' = "await465"
             /\ s'.port = 465
             /\ s'.mailServer = s.mailServer
       /\ AttemptFailed("await465")
          => /\ connects' = connects
             /\ s' = s
             /\ IF Len(mxRecords) > 1 /\ retryCount > 1
                THEN pc' = "call" /\ depth' = depth + 1
                ELSE pc' = "done" /\ result'.exists = FALSE]_vars

\* a first attempt that broke on an error outside the connection class ended
\* a call with budget, after one attempt
C35_Witness ==
    /\ fn = "verifyEmail"
    /\ pc = "done"
    /\ retryCount > 0
    /\ Len(log) = 1
    /\ log[1].failed
    /\ s.reason # ""
    /\ ~ConnectionClass(s.reason)
    /\ result.exists = FALSE

-----------------------------------------------------------------------------
(* C36 *)

\* C36: with simulationMode set, verifyEmail of a well-formed address has
\* resolved the route once when it returns, opens no connection, answers the
\* 'No MX records found' negative result on an empty route and the simulated
\* outcome otherwise; checkCatchAll resolves nothing, opens no connection and
\* returns the simulated outcome with the one-host route simulated-mx.<domain>.
C36_SimulationAndRoute ==
    (SimulationEnabled(options) /\ pc = "done")
    => /\ (fn = "verifyEmail" /\ ~Malformed(arg)
           => /\ dnsLookups = 1
              /\ connects = 0
              /\ IF mxRecords = <<>>
                 THEN /\ result.exists = FALSE
                      /\ result.error = {"No MX records found for corp.test"}
                 ELSE /\ result.exists = (options.simulationResult = {TRUE})
                      /\ result.error = {})
       /\ (fn = "checkCatchAll"
           => /\ dnsLookups = 0
              /\ connects = 0
              /\ result.hasCatchAll = (options.simulationResult = {TRUE})
              /\ result.mxRecords = <<"simulated-mx." \o Str(arg)>>
              /\ result.error = {})

\* a simulated verifyEmail with the outcome set to true answered negatively on
\* an empty route
C36_Witness ==
    /\ fn = "verifyEmail"
    /\ arg = WellFormedEmail
    /\ options.simulationMode = {TRUE}
    /\ options.simulationResult = {TRUE}
    /\ pc = "done"
    /\ dnsLookups = 1
    /\ mxRecords = <<>>
    /\ result.exists = FALSE

-----------------------------------------------------------------------------
(* C37 *)

\* the top-level invocation was given retryCount = 0
ZeroBudgetCall == ServiceCall /\ depth = 0 /\ options.retryCount = {0}

\* C37: a top-level call given retryCount = 0 runs with the budget 2 of a call
\* given retryCount = 2 or none: its invocation tries the alternate ports after
\* a connection-class failure and, on a route of several hosts, recurses with
\* the option set to 1, from where the call is in the very states of a call
\* started with 2.
C37_ZeroIsDefault ==
    /\ [](ZeroBudgetCall /\ pc # "call" => retryCount = 2)
    /\ [][ZeroBudgetCall /\ pc = "await25" /\ s.promise = "rejected"
              /\ ConnectionClass(s.reason) /\ pc' # pc
          => pc' = "await587"]_vars
    /\ [][ZeroBudgetCall /\ pc = "await465" /\ s.promise = "rejected" /\ pc' # pc
          => IF Len(mxRecords) > 1
             THEN /\ pc' = "call"
                  /\ depth' = 1
                  /\ options' = [options EXCEPT !.retryCount = {1}]
             ELSE pc' = "done"]_vars

\* a call given retryCount = 0 is on port 465 after two failed attempts
C37_Witness ==
    /\ ZeroBudgetCall
    /\ pc = "await465"
    /\ Len(log) = 2
    /\ s.port = 465
    /\ Len(mxRecords) > 1

-----------------------------------------------------------------------------
(* C38 *)

\* C38: a simulated guessEmail on a domain the detector does not report as
\* catch-all returns without any verifyEmail call the 11 candidates in
\* generation order, the first with exists = true whatever simulationResult is,
\* each other one with exists = simulationResult.
C38_SimulatedGuess ==
    (/\ fn = "guessEmail"
     /\ SimulationEnabled(options)
     /\ pc = "done"
     /\ arg.firstName # UNDEF
     /\ ~result.hasCatchAll)
    => /\ verifyCalls = 0
       /\ result.error = {}
       /\ Len(result.guessedEmails) = 11
       /\ \A k \in 1..11 :
             /\ result.guessedEmails[k].email
                  = generatePossibleEmails(arg.firstName, arg.lastName, arg.domain)[k]
             /\ result.guessedEmails[k].exists
                  = IF k = 1 THEN TRUE ELSE options.simulationResult = {TRUE}

\* a simulated guess with the outcome set to false: the first candidate is
\* marked as existing, the second is not
C38_Witness ==
    /\ fn = "guessEmail"
    /\ options.simulationMode = {TRUE}
    /\ options.simulationResult = {FALSE}
    /\ pc = "done"
    /\ arg.firstName = "John"
    /\ Len(result.guessedEmails) = 11
    /\ result.guessedEmails[1].exists
    /\ ~result.guessedEmails[2].exists

-----------------------------------------------------------------------------
(* C39 *)

\* C39: outside simulation mode a result of findEmailPattern has a null
\* pattern whatever the probes reported; in every mode a result with a pattern
\* has hasCatchAll = false.
C39_NoPatternOutsideSimulation ==
    (fn = "findEmailPattern" /\ pc = "done")
    => /\ (~SimulationEnabled(options) => result.pattern = {})
       /\ (result.pattern # {} => ~result.hasCatchAll)

\* all five probes were rejected and the answer has no pattern
C39_Witness ==
    /\ fn = "findEmailPattern"
    /\ pc = "done"
    /\ ~SimulationEnabled(options)
    /\ Len(probed) = 5
    /\ \A i \in 1..5 : ~probed[i]
    /\ result.pattern = {}
    /\ result.error = {}

-----------------------------------------------------------------------------
(* C33 *)

\* the states the socket events of a session lead to from state c, the
\* session taken alone
SessionSuccessors(c) ==
    (IF c.sock = "connecting"
     THEN {[c EXCEPT !.sock = "open"]}
          \cup { OnError(Cause([c EXCEPT !.sock = "errored"], "error"), message) :
                 message \in ConnectErrors(c) }
     ELSE {})
    \cup (IF c.sock \in {"open", "ended"}
          THEN { OnData(c, response) : response \in Responses }
               \cup { OnError(Cause([c EXCEPT !.sock = "errored"], "error"), message) :
                      message \in SessionErrors }
          ELSE {})
    \cup (IF c.sock \in {"connecting", "open", "ended"}
          THEN {OnTimeout(Cause(c, "timeout"))}
          ELSE {})
    \cup (IF c.sock \in {"open", "ended", "errored", "destroyed"}
          THEN {OnClose(Cause([c EXCEPT !.sock = "closed"], "close"))}
          ELSE {})

\* the least set that contains the given states and the successors of its
\* members
RECURSIVE SessionClosure(_)
SessionClosure(states) ==
    LET more == states \cup UNION { SessionSuccessors(c) : c \in states }
    IN  IF more = states THEN states ELSE SessionClosure(more)

\* for each client of the batch, the states its session has when it is the
\* only session of the process
LoneSessions == [i \in 1..concurrencyLimit |-> SessionClosure({BatchClients[i]})]

\* C33: the sessions of a batch share no mutable state: a socket event changes
\* the session object, handshake position and acceptance flag of the session
\* it belongs to, as it would with no other session around, and leaves every
\* other session as it is; so under every interleaving each session is in a
\* state, outcome included, that it has when run alone.
C33_SessionsIndependent ==
    /\ [](\A i \in 1..Len(members) : members[i] \in LoneSessions[i])
    /\ [][\E i \in 1..Len(members) :
            /\ \A j \in 1..Len(members) : j # i => members'[j] = members[j]
            /\ members'[i] \in SessionSuccessors(members[i])]_vars

\* three sessions of one batch with three outcomes: the first accepted its
\* recipient, the second was refused by its server, the third timed out
\* before the first reply
C33_Witness ==
    /\ Len(members) = 3
    /\ members[1].promise = "resolved" /\ members[1].value = TRUE
    /\ members[2].promise = "resolved" /\ members[2].value = FALSE
    /\ members[2].commandSequence = 4
    /\ members[3].promise = "rejected" /\ members[3].cause = "timeout"
    /\ members[3].commandSequence = 0

-----------------------------------------------------------------------------
(* C40 *)

\* the status of the reply to the latest request
LastStatus == Last(scrape.replies).status

\* a request is sent
Requests == Len(scrape'.requests) > Len(scrape.requests)

\* C40: scraperEngineCall sends a further request only after a reply with
\* status 403, 429 or 503 and fewer than 3 retries, with the retry counter one
\* higher than in the request before; a top-level call sends at most 4
\* requests and ends; when it ends on a failed request the status was of
\* another kind or the 3 retries are used up, and the call returns a result
\* with status = false.
C40_RetryOnForbiddenOnly ==
    /\ [](Len(scrape.requests) <= 4)
    /\ [](scrape.pc = "done" /\ scrape.replies # <<>> /\ ~Last(scrape.replies).ok
          => /\ scrape.result.status = FALSE
             /\ LastStatus \notin {{403}, {429}, {503}} \/ Len(scrape.requests) = 4)
    /\ [][Requests
          => /\ Len(scrape'.requests) = Len(scrape.requests) + 1
             /\ Last(scrape'.requests).retry = Len(scrape.requests)
             /\ Len(scrape.replies) = Len(scrape.requests)
             /\ scrape.requests # <<>>
                => /\ LastStatus \in {{403}, {429}, {503}}
                   /\ Last(scrape.requests).retry < 3
                   /\ Last(scrape'.requests).retry = Last(scrape.requests).retry + 1]_vars
    /\ <>(scrape.pc = "done")

\* a call that sent four requests, each answered 403, 429 or 503, has returned
C40_Witness ==
    /\ scrape.pc = "done"
    /\ Len(scrape.requests) = 4
    /\ \A k \in 1..4 : scrape.replies[k].status \in {{403}, {429}, {503}}
    /\ scrape.replies[1].status # scrape.replies[4].status
    /\ scrape.result.status = FALSE
    /\ scrape.result.shouldRetry

=============================================================================
